---- MODULE Spec2Model ----
(***************************************************************************)
(* Model of the ProjectCoordinator Durable Object                          *)
(* (src/src/durable-objects/ProjectCoordinator.ts).                        *)
(*                                                                         *)
(* One coordinator instance: its in-memory ProjectState, the registry of   *)
(* open WebSockets, and the single "state" key of its storage.  A handler  *)
(* runs to completion as one action; the effects it produces on its way    *)
(* (storage.put calls, frames sent) are recorded in order in `log`, and    *)
(* what it answers in `response`; `last` names the request or event.       *)
(* `objects` holds the instances of the namespace, by object id, where the *)
(* router and the runtime are modelled (RuntimeSpec) and where a command   *)
(* is followed step by step (ProgressSpec); the specifications of one      *)
(* instance leave it empty.  `db` is the relational store of the           *)
(* Project Directory (src/src/services/DatabaseService.ts, tables of       *)
(* src/schemas/database.sql), empty wherever the Directory is not used.    *)
(*                                                                         *)
(* Fields carried: ProjectState id, agents, tasks, context,                *)
(* messageHistory, createdAt, updatedAt, settings.notificationSettings;    *)
(* Agent id, status, websocket; Task id, status; Message id, type.  The    *)
(* remaining fields are copied through by the code and are left out;       *)
(* where the filtered queries are modelled (QuerySpec) a Task also has its *)
(* tags.                                                                   *)
(* An omitted or falsy string input (`x || default`) is written "".        *)
(***************************************************************************)
EXTENDS Integers, Sequences, FiniteSets, TLC

VARIABLES state, storage, websockets, conn, now, log, response, last, objects,
          db

vars ==
  <<state, storage, websockets, conn, now, log, response, last, objects, db>>

(* ------------------------------ bounds -------------------------------- *)

\* Largest value of the clock.  The clock advances by one with every
\* command handled, so this is also the number of commands in a behaviour.
MaxClock == 3
\* Length kept by sendMessage: 1000 in the source, scaled down.
HistoryLimit == 2

Sockets == {"w1", "w2"}
AgentIds == {"a1", "a2"}
AgentUuids == {"ua"}
\* The ids that update and delete requests name.
UpdatedAgentIds == {"a1"}
TaskIds == {"t1"}
TaskUuids == {"ut"}
\* The id a client puts on its messages.
ClientMsgId == 0
ContextKeys == {"k"}
ContextVals == {"v1"}

(* ------------------------------ values -------------------------------- *)

NoSocket == "none"
EmptyMap == [k \in {} |-> "x"]

\* A collection field of ProjectState: a Map after construction, whatever
\* JSON value the payload carried after initializeProject.
MapOf(m) == [m |-> m, kind |-> "Map"]

DefaultSettings ==
  [onTaskComplete |-> TRUE, onAgentJoin |-> TRUE, onBlocker |-> TRUE]

DefaultState ==
  [ id |-> "", agents |-> MapOf(EmptyMap), tasks |-> MapOf(EmptyMap),
    context |-> EmptyMap, messageHistory |-> <<>>,
    createdAt |-> 0, updatedAt |-> 0, settings |-> DefaultSettings ]

NoSnapshot == [present |-> FALSE]

\* The tables projects, agents and tasks without a row.
EmptyDb == [agents |-> EmptyMap, tasks |-> EmptyMap, projects |-> EmptyMap]

RECURSIVE SetToSeq(_)
SetToSeq(S) ==
  IF S = {} THEN <<>>
  ELSE LET x == CHOOSE y \in S : TRUE IN <<x>> \o SetToSeq(S \ {x})

\* arr.slice(-n) for n > 0
SliceLast(s, n) ==
  IF Len(s) <= n THEN s ELSE SubSeq(s, Len(s) - n + 1, Len(s))

(* --------------------------- serialization ---------------------------- *)

\* serializeAgent: the agent without its websocket field.
SerializeAgent(a) == [a EXCEPT !.websocket = NoSocket]

\* JSON.stringify of an agent: an undefined websocket is dropped, an object
\* is written out under its key.
JsonAgent(a) ==
  [ id |-> a.id,
    websocket |-> IF a.websocket = NoSocket THEN "absent" ELSE "object",
    status |-> a.status ]

\* Array.from(c.entries()) for a Map or an Array; a plain object has no
\* entries() and the call throws.
HasIterators(c) == c.kind \in {"Map", "Array"}
Entries(c) == { <<k, c.m[k]>> : k \in DOMAIN c.m }
Values(c) == { c.m[k] : k \in DOMAIN c.m }

\* new Map(entries)
MapFromEntries(es) ==
  MapOf([k \in { e[1] : e \in es } |-> (CHOOSE e \in es : e[1] = k)[2]])

\* The object persistState hands to storage.put.
Serializable(st) ==
  [ id |-> st.id, agents |-> Entries(st.agents),
    tasks |-> Entries(st.tasks), context |-> st.context,
    messageHistory |-> st.messageHistory, createdAt |-> st.createdAt,
    updatedAt |-> st.updatedAt, settings |-> st.settings,
    present |-> TRUE ]

\* The constructor's reconstruction of a stored snapshot.
Reconstruct(stored) ==
  [ id |-> stored.id,
    agents |-> MapFromEntries(stored.agents),
    tasks |-> MapFromEntries(stored.tasks),
    context |-> stored.context, messageHistory |-> stored.messageHistory,
    createdAt |-> stored.createdAt, updatedAt |-> stored.updatedAt,
    settings |-> stored.settings ]

\* serializeState: agents and tasks as lists, agents without websocket.
SerializeState(st) ==
  [ id |-> st.id,
    agents |-> { SerializeAgent(a) : a \in Values(st.agents) },
    tasks |-> Values(st.tasks),
    context |-> st.context, messageHistory |-> st.messageHistory,
    createdAt |-> st.createdAt, updatedAt |-> st.updatedAt,
    settings |-> st.settings ]

(* ------------------------- execution context -------------------------- *)

\* Date.now() as the running handler reads it: later than at the last
\* command.
Now == now + 1

\* What a handler has done so far: the ProjectState, the stored snapshot,
\* the registry, the effects in order, the pending exception (its message,
\* "" when none) and the agents it returns.
Ctx(st, store, socks) ==
  [ log |-> <<>>, st |-> st, store |-> store, socks |-> socks, err |-> "",
    ret |-> {} ]

Ok(c) == c.err = ""
Throw(c, e) == IF Ok(c) THEN [c EXCEPT !.err = e] ELSE c

TypeError == "is not a function"
NotFoundMsgs == {"Agent not found", "Task not found"}
MissingMsgs ==
  { "Agent data is missing", "Agent ID or updates are missing",
    "Task data is missing", "Task ID or updates are missing",
    "Message data is missing", "Context data is missing" }
InternalMsg == "An internal server error occurred."
UnknownMsg == "Unknown message type"
InvalidMsg == "Invalid message format"

\* One effect.  `snap` is the value written (a put) or what a snapshot of
\* the in-memory state would be when the frame is sent (a send).
PutEntry(snap) ==
  [ kind |-> "put", snap |-> snap, to |-> NoSocket, type |-> "put", msg |-> "",
    ok |-> TRUE ]
SendEntry(w, type, msg, ok, st) ==
  [ kind |-> "send", snap |-> Serializable(st), to |-> w, type |-> type, msg |-> msg,
    ok |-> ok ]

\* ws.send(str): throws on a socket that is no longer open.
Sendable(w) == conn[w] = "open"

\* A frame sent to one socket outside a broadcast (welcome, error).
SendTo(c, w, type, msg) ==
  IF ~Ok(c) THEN c
  ELSE IF Sendable(w)
    THEN [c EXCEPT !.log = Append(@, SendEntry(w, type, msg, TRUE, c.st))]
    ELSE Throw([c EXCEPT !.log = Append(@, SendEntry(w, type, msg, FALSE, c.st))],
               "send failed")

(* ---------------------- persistence and broadcast --------------------- *)

PersistState(c) ==
  IF ~Ok(c) THEN c
  ELSE IF ~(HasIterators(c.st.agents) /\ HasIterators(c.st.tasks))
    THEN Throw(c, TypeError)
    ELSE [c EXCEPT !.store = Serializable(c.st),
                   !.log = Append(@, PutEntry(Serializable(c.st)))]

\* Mutant: the loop has no try/catch, the first failed send ends it.
BroadcastToAllAborting(c, type) ==
  IF ~Ok(c) THEN c
  ELSE IF \E w \in c.socks : ~Sendable(w)
    THEN LET w == CHOOSE x \in c.socks : ~Sendable(x)
         IN Throw([c EXCEPT !.log = Append(@, SendEntry(w, type, "", FALSE, c.st))],
                  "send failed")
    ELSE [c EXCEPT
           !.log = @ \o [i \in 1..Cardinality(c.socks) |->
                          SendEntry(SetToSeq(c.socks)[i], type, "", TRUE, c.st)]]

BroadcastToAll(c, type) ==
  IF ~Ok(c) THEN c
  ELSE [c EXCEPT
         !.log = @ \o [i \in 1..Cardinality(c.socks) |->
                        LET w == SetToSeq(c.socks)[i]
                        IN SendEntry(w, type, "", Sendable(w), c.st)],
         !.socks = { w \in @ : Sendable(w) }]

\* serializeState() inside a broadcast or a welcome frame: throws when a
\* collection has no values().
WithSerializedState(c) ==
  IF ~Ok(c) THEN c
  ELSE IF ~(HasIterators(c.st.agents) /\ HasIterators(c.st.tasks))
    THEN Throw(c, TypeError)
    ELSE c

(* ------------------------------ commands ------------------------------ *)

ProjectUuids == {"pu1", "pu2"}
FreshProjectUuid(st) == CHOOSE u \in ProjectUuids : u # st.id

InitializeProject(c, data) ==
  LET st == c.st
      merged ==
        [ id |-> IF "id" \in data.has /\ data.id # "" THEN data.id
                 ELSE FreshProjectUuid(st),
          agents |-> IF "agents" \in data.has THEN data.agents ELSE st.agents,
          tasks |-> IF "tasks" \in data.has THEN data.tasks ELSE st.tasks,
          context |-> st.context,
          messageHistory |-> IF "messageHistory" \in data.has
                             THEN data.messageHistory ELSE st.messageHistory,
          createdAt |-> Now, updatedAt |-> Now,
          settings |-> IF "settings" \in data.has THEN data.settings
                       ELSE st.settings ]
      c1 == [c EXCEPT !.st = merged]
      c2 == PersistState(c1)
  IN BroadcastToAll(WithSerializedState(c2), "project.initialized")

AgentUuidFree(st, u) ==
  /\ u \notin DOMAIN st.agents.m
  /\ \A k \in DOMAIN st.agents.m : st.agents.m[k].id # u
CanAgentUuid(st) == \E u \in AgentUuids : AgentUuidFree(st, u)
FreshAgentUuid(st) == CHOOSE u \in AgentUuids : AgentUuidFree(st, u)

NewAgent(st, agentData, websocket) ==
  [ id |-> IF agentData.id # "" THEN agentData.id ELSE FreshAgentUuid(st),
    websocket |-> websocket,
    status |-> "active" ]

\* Mutant: the welcome frame is sent as soon as the agent is stored.
RegisterAgentWelcomeFirst(c, agentData, websocket) ==
  LET agent == NewAgent(c.st, agentData, websocket)
      c1 == IF c.st.agents.kind # "Map" THEN Throw(c, TypeError)
            ELSE [c EXCEPT !.st.agents.m = (agent.id :> agent) @@ @,
                           !.st.updatedAt = Now]
      c2 == IF websocket # NoSocket
            THEN SendTo(WithSerializedState(c1), websocket, "welcome", agent.id)
            ELSE c1
      c3 == BroadcastToAll(PersistState(c2), "agent.joined")
  IN IF Ok(c3) THEN [c3 EXCEPT !.ret = {agent}] ELSE c3

RegisterAgent(c, agentData, websocket) ==
  LET agent == NewAgent(c.st, agentData, websocket)
      c1 == IF c.st.agents.kind # "Map" THEN Throw(c, TypeError)
            ELSE [c EXCEPT !.st.agents.m = (agent.id :> agent) @@ @,
                           !.st.updatedAt = Now]
      c2 == PersistState(c1)
      c3 == BroadcastToAll(c2, "agent.joined")
      c4 == IF websocket # NoSocket
            THEN SendTo(WithSerializedState(c3), websocket, "welcome", agent.id)
            ELSE c3
  IN IF Ok(c4) THEN [c4 EXCEPT !.ret = {agent}] ELSE c4

\* Object.assign(target, updates) for the fields carried.
AssignAgent(agent, updates) ==
  [ agent EXCEPT
      !.id = IF updates.id # "" THEN updates.id ELSE @,
      !.status = IF updates.status # "" THEN updates.status ELSE @ ]

\* Mutant: updatedAt is refreshed before the agent is looked up.
UpdateAgentTouching(c, agentId, updates) ==
  IF c.st.agents.kind # "Map" THEN Throw(c, TypeError)
  ELSE IF agentId \notin DOMAIN c.st.agents.m
    THEN Throw([c EXCEPT !.st.updatedAt = Now], "Agent not found")
  ELSE
    LET c1 == [c EXCEPT !.st.agents.m[agentId] = AssignAgent(@, updates),
                        !.st.updatedAt = Now]
    IN BroadcastToAll(PersistState(c1), "agent.updated")

UpdateAgent(c, agentId, updates) ==
  IF c.st.agents.kind # "Map" THEN Throw(c, TypeError)
  ELSE IF agentId \notin DOMAIN c.st.agents.m THEN Throw(c, "Agent not found")
  ELSE
    LET c1 == [c EXCEPT !.st.agents.m[agentId] = AssignAgent(@, updates),
                        !.st.updatedAt = Now]
    IN BroadcastToAll(PersistState(c1), "agent.updated")

RemoveAgent(c, agentId) ==
  IF c.st.agents.kind # "Map" THEN Throw(c, TypeError)
  ELSE IF agentId \notin DOMAIN c.st.agents.m THEN c
  ELSE
    LET c1 == [c EXCEPT
                 !.st.agents.m = [k \in DOMAIN @ \ {agentId} |-> @[k]],
                 !.st.updatedAt = Now]
    IN BroadcastToAll(PersistState(c1), "agent.left")

TaskUuidFree(st, u) ==
  /\ u \notin DOMAIN st.tasks.m
  /\ \A k \in DOMAIN st.tasks.m : st.tasks.m[k].id # u
CanTaskUuid(st) == \E u \in TaskUuids : TaskUuidFree(st, u)
FreshTaskUuid(st) == CHOOSE u \in TaskUuids : TaskUuidFree(st, u)

NewTask(st, taskData) ==
  [ id |-> IF taskData.id # "" THEN taskData.id ELSE FreshTaskUuid(st),
    status |-> IF taskData.status # "" THEN taskData.status ELSE "todo" ]

\* Mutant: a task created as completed is announced like a completion.
CreateTaskNotifying(c, taskData) ==
  LET task == NewTask(c.st, taskData)
      c1 == IF c.st.tasks.kind # "Map" THEN Throw(c, TypeError)
            ELSE [c EXCEPT !.st.tasks.m = (task.id :> task) @@ @,
                           !.st.updatedAt = Now]
      c2 == BroadcastToAll(PersistState(c1), "task.created")
  IN IF Ok(c2) /\ task.status = "completed" /\ c2.st.settings.onTaskComplete
     THEN [c2 EXCEPT !.st.messageHistory =
                       Append(@, [id |-> 0, type |-> "system",
                                  agentId |-> "system", event |-> "task_completed"])]
     ELSE c2

CreateTask(c, taskData) ==
  LET task == NewTask(c.st, taskData)
      c1 == IF c.st.tasks.kind # "Map" THEN Throw(c, TypeError)
            ELSE [c EXCEPT !.st.tasks.m = (task.id :> task) @@ @,
                           !.st.updatedAt = Now]
  IN BroadcastToAll(PersistState(c1), "task.created")

FreshMessageUuid(st) ==
  CHOOSE n \in 1..(Len(st.messageHistory) + 1) :
    \A i \in 1..Len(st.messageHistory) : st.messageHistory[i].id # n

\* A key of the payload, "" when the payload does not have it.
Field(data, key) == IF key \in DOMAIN data THEN data[key] ELSE ""

NewMessage(st, messageData) ==
  [ id |-> IF messageData.hasId THEN messageData.id ELSE FreshMessageUuid(st),
    type |-> IF messageData.type # "" THEN messageData.type ELSE "chat",
    agentId |-> IF Field(messageData, "agentId") # ""
                THEN messageData.agentId ELSE "system",
    event |-> Field(messageData, "event") ]

\* Mutant: the trim keeps the head of the list, slice(0, 1000).
PushAndTrimHead(history, message) ==
  LET pushed == Append(history, message)
  IN IF Len(pushed) > HistoryLimit THEN SubSeq(pushed, 1, HistoryLimit)
     ELSE pushed

\* push, then slice(-1000) when longer than 1000
PushAndTrim(history, message) ==
  LET pushed == Append(history, message)
  IN IF Len(pushed) > HistoryLimit THEN SliceLast(pushed, HistoryLimit)
     ELSE pushed

SendMessage(c, messageData) ==
  IF ~Ok(c) THEN c
  ELSE
    LET message == NewMessage(c.st, messageData)
        c1 == [c EXCEPT !.st.messageHistory = PushAndTrim(@, message),
                        !.st.updatedAt = Now]
    IN BroadcastToAll(PersistState(c1), "message.new")

\* The payload of a notification; `event` is metadata.event.
SystemMessage(event) ==
  [id |-> 0, type |-> "system", event |-> event, hasId |-> FALSE]

\* Mutant: the notification is sent whatever the settings say.
NotifyTaskCompletionUngated(c) ==
  IF ~Ok(c) THEN c
  ELSE SendMessage(c, SystemMessage("task_completed"))

NotifyTaskCompletion(c) ==
  IF ~Ok(c) \/ ~c.st.settings.onTaskComplete THEN c
  ELSE SendMessage(c, SystemMessage("task_completed"))

NotifyTaskBlocked(c) ==
  IF ~Ok(c) \/ ~c.st.settings.onBlocker THEN c
  ELSE SendMessage(c, SystemMessage("task_blocked"))

AssignTask(task, updates) ==
  [ task EXCEPT
      !.id = IF updates.id # "" THEN updates.id ELSE @,
      !.status = IF updates.status # "" THEN updates.status ELSE @ ]

\* Mutant: the task.updated broadcast goes out before the snapshot is
\* written.
UpdateTaskBroadcastFirst(c, taskId, updates) ==
  IF c.st.tasks.kind # "Map" THEN Throw(c, TypeError)
  ELSE IF taskId \notin DOMAIN c.st.tasks.m THEN Throw(c, "Task not found")
  ELSE
    LET c1 == [c EXCEPT !.st.tasks.m[taskId] = AssignTask(@, updates),
                        !.st.updatedAt = Now]
        c2 == PersistState(BroadcastToAll(c1, "task.updated"))
        c3 == IF updates.status = "completed" THEN NotifyTaskCompletion(c2)
              ELSE c2
    IN IF updates.status = "blocked" THEN NotifyTaskBlocked(c3) ELSE c3

UpdateTask(c, taskId, updates) ==
  IF c.st.tasks.kind # "Map" THEN Throw(c, TypeError)
  ELSE IF taskId \notin DOMAIN c.st.tasks.m THEN Throw(c, "Task not found")
  ELSE
    LET c1 == [c EXCEPT !.st.tasks.m[taskId] = AssignTask(@, updates),
                        !.st.updatedAt = Now]
        c2 == BroadcastToAll(PersistState(c1), "task.updated")
        c3 == IF updates.status = "completed" THEN NotifyTaskCompletion(c2)
              ELSE c2
    IN IF updates.status = "blocked" THEN NotifyTaskBlocked(c3) ELSE c3

DeleteTask(c, taskId) ==
  IF c.st.tasks.kind # "Map" THEN Throw(c, TypeError)
  ELSE
    LET c1 == [c EXCEPT
                 !.st.tasks.m = [k \in DOMAIN @ \ {taskId} |-> @[k]],
                 !.st.updatedAt = Now]
    IN BroadcastToAll(PersistState(c1), "task.deleted")

\* Mutant: context.updated is broadcast before and after the write.
UpdateContextTwice(c, contextUpdates) ==
  LET c1 == [c EXCEPT !.st.context = contextUpdates @@ @,
                      !.st.updatedAt = Now]
      c2 == PersistState(BroadcastToAll(PersistState(c1), "context.updated"))
  IN BroadcastToAll(c2, "context.updated")

UpdateContext(c, contextUpdates) ==
  LET c1 == [c EXCEPT !.st.context = contextUpdates @@ @,
                      !.st.updatedAt = Now]
  IN BroadcastToAll(PersistState(c1), "context.updated")

(* ------------------------------ queries ------------------------------- *)

NoResponse == [agents |-> {}, status |-> 0, body |-> ""]
JsonResponse(body, agents) == [agents |-> agents, status |-> 200, body |-> body]
StatusResponse(status) == [agents |-> {}, status |-> status, body |-> ""]
\* An exception that leaves fetch(): the runtime answers with 500.
Uncaught == StatusResponse(500)

\* GET /state
GetState(st) ==
  IF HasIterators(st.agents) /\ HasIterators(st.tasks)
  THEN JsonResponse("state", { JsonAgent(a) : a \in SerializeState(st).agents })
  ELSE Uncaught

\* GET /agents
GetAgents(st) ==
  IF HasIterators(st.agents)
  THEN JsonResponse("agents", { JsonAgent(a) : a \in Values(st.agents) })
  ELSE Uncaught

(* ------------------------- streaming commands ------------------------- *)

NoAgentData == [id |-> "", status |-> ""]
NoUpdates == [id |-> "", status |-> ""]
NoMessageData == [id |-> 0, type |-> "", hasId |-> FALSE]

\* A parsed frame.  `has` tells whether the required fields of its type are
\* present; `id` is agentId or taskId.
Frame(type, has, id, data, updates, message, context) ==
  [ id |-> id, context |-> context, type |-> type, data |-> data,
    has |-> has, updates |-> updates, message |-> message ]

\* Mutant: the catch answers and then drops the socket from the registry.
OuterCatchClosing(c, ws) ==
  IF Ok(c) THEN c
  ELSE LET text == IF c.err \in NotFoundMsgs \cup MissingMsgs THEN c.err
                   ELSE InternalMsg
           sent == SendTo([c EXCEPT !.err = ""], ws, "error", text)
       IN [sent EXCEPT !.socks = @ \ {ws}]

\* Mutant: the catch answers every exception with the internal-error text.
OuterCatchInternal(c, ws) ==
  IF Ok(c) THEN c
  ELSE SendTo([c EXCEPT !.err = ""], ws, "error", InternalMsg)

\* The catch at the end of handleWebSocketMessage.
OuterCatch(c, ws) ==
  IF Ok(c) THEN c
  ELSE IF c.err \in NotFoundMsgs \cup MissingMsgs
    THEN SendTo([c EXCEPT !.err = ""], ws, "error", c.err)
    ELSE SendTo([c EXCEPT !.err = ""], ws, "error", InternalMsg)

\* The catch around updateAgent and updateTask.
InnerCatch(c, ws, text) ==
  IF Ok(c) THEN c
  ELSE IF c.err \in NotFoundMsgs
    THEN SendTo([c EXCEPT !.err = ""], ws, "error", text)
    ELSE c

HandleWebSocketMessage(c, message, ws) ==
  LET body ==
        CASE message.type = "agent.register" ->
               IF ~message.has THEN Throw(c, "Agent data is missing")
               ELSE RegisterAgent(c, message.data, ws)
          [] message.type = "agent.update" ->
               IF ~message.has THEN Throw(c, "Agent ID or updates are missing")
               ELSE InnerCatch(UpdateAgent(c, message.id, message.updates),
                               ws, "Agent not found")
          [] message.type = "task.create" ->
               IF ~message.has THEN Throw(c, "Task data is missing")
               ELSE CreateTask(c, message.data)
          [] message.type = "task.update" ->
               IF ~message.has THEN Throw(c, "Task ID or updates are missing")
               ELSE InnerCatch(UpdateTask(c, message.id, message.updates),
                               ws, "Task not found")
          [] message.type = "message.send" ->
               IF ~message.has THEN Throw(c, "Message data is missing")
               ELSE SendMessage(c, message.message)
          [] message.type = "context.update" ->
               IF ~message.has THEN Throw(c, "Context data is missing")
               ELSE UpdateContext(c, message.context)
          [] OTHER -> SendTo(c, ws, "error", UnknownMsg)
  IN OuterCatch(body, ws)

(* ------------------------------- inputs ------------------------------- *)

AgentDatas ==
  { [id |-> "a1", status |-> ""], [id |-> "a2", status |-> "idle"],
    [id |-> "", status |-> "idle"] }
AgentUpdates == { [id |-> "", status |-> "idle"], [id |-> "a2", status |-> ""] }
TaskDatas == { [id |-> "t1", status |-> ""], [id |-> "", status |-> "completed"] }
TaskUpdates ==
  { [id |-> "", status |-> "completed"], [id |-> "", status |-> "blocked"],
    [id |-> "ut", status |-> ""] }
MessageDatas ==
  { [id |-> ClientMsgId, type |-> "", hasId |-> TRUE],
    [id |-> 0, type |-> "status", hasId |-> FALSE] }
ContextUpdates == { k :> v : k \in ContextKeys, v \in ContextVals }

\* A messageHistory longer than sendMessage ever leaves it.
LongHistory == [i \in 1..(HistoryLimit + 1) |-> [id |-> i, type |-> "chat"]]
ListedAgent == [id |-> "a1", websocket |-> NoSocket, status |-> "idle"]

\* Bodies of POST /initialize.  `has` names the keys the JSON body has; a
\* JSON body cannot carry a Map, so `agents` and `tasks` arrive as an array
\* or a plain object.
InitData(has, id, agents, tasks, history, settings) ==
  [ id |-> id, agents |-> agents, tasks |-> tasks, messageHistory |-> history,
    settings |-> settings, has |-> has ]
InitBase(has) ==
  InitData(has, "", MapOf(EmptyMap), MapOf(EmptyMap), <<>>, DefaultSettings)
InitDatas ==
  { InitBase({}),
    [InitBase({"id"}) EXCEPT !.id = "p1"],
    [InitBase({"agents"}) EXCEPT
       !.agents = [m |-> ("#0" :> ListedAgent), kind |-> "Array"]],
    [InitBase({"agents"}) EXCEPT !.agents = [m |-> EmptyMap, kind |-> "Object"]],
    [InitBase({"tasks"}) EXCEPT !.tasks = [m |-> EmptyMap, kind |-> "Object"]],
    [InitBase({"messageHistory"}) EXCEPT !.messageHistory = LongHistory],
    [InitBase({"settings"}) EXCEPT
       !.settings = [onTaskComplete |-> FALSE, onAgentJoin |-> FALSE,
                     onBlocker |-> TRUE]],
    [InitBase({"settings"}) EXCEPT
       !.settings = [onTaskComplete |-> TRUE, onAgentJoin |-> TRUE,
                     onBlocker |-> FALSE]] }

(* ------------------------------ actions ------------------------------- *)

Start == Ctx(state, storage, websockets)

\* The request, frame or event handled last: the operation it asks for,
\* the socket it came over (NoSocket: the request/response surface) and the
\* agent or task id it names.
Last(op, ws, id) == [id |-> id, ws |-> ws, op |-> op]
Http(op, id) == Last(op, NoSocket, id)
Event(op) == Last(op, NoSocket, "")

\* The handler's effects become the new state.  A socket that a failed send
\* removed from the registry is never used again: it counts as closed.
Commit(c, resp, l) ==
  /\ last' = l
  /\ state' = c.st
  /\ storage' = c.store
  /\ websockets' = c.socks
  /\ log' = c.log
  /\ response' = resp
  /\ now' = Now
  /\ conn' = [w \in Sockets |->
                IF w \in websockets \ c.socks THEN "closed" ELSE conn[w]]
  /\ UNCHANGED <<objects, db>>

HttpResult(c, resp, l) == Commit(c, IF Ok(c) THEN resp ELSE Uncaught, l)

Success == JsonResponse("success", {})

PostInitialize(data) ==
  /\ now < MaxClock
  /\ HttpResult(InitializeProject(Start, data), Success, Http("initialize", ""))

PostAgents(data) ==
  /\ now < MaxClock
  /\ data.id # "" \/ CanAgentUuid(state)
  /\ LET c == RegisterAgent(Start, data, NoSocket)
     IN HttpResult(c, JsonResponse("agent", { JsonAgent(a) : a \in c.ret }),
                   Http("registerAgent", ""))

PostTasks(data) ==
  /\ now < MaxClock
  /\ data.id # "" \/ CanTaskUuid(state)
  /\ HttpResult(CreateTask(Start, data), JsonResponse("task", {}),
                Http("createTask", ""))

PostMessages(data) ==
  /\ now < MaxClock
  /\ HttpResult(SendMessage(Start, data), Success, Http("sendMessage", ""))

\* handlePut: "not found" becomes 404, anything else is rethrown.
PutResult(c, l) ==
  IF c.err \in NotFoundMsgs THEN Commit(c, StatusResponse(404), l)
  ELSE HttpResult(c, Success, l)

PutAgent(agentId, updates) ==
  /\ now < MaxClock
  /\ PutResult(UpdateAgent(Start, agentId, updates), Http("updateAgent", agentId))

\* PUT /tasks/:id, recorded as l.
PutTaskAs(taskId, updates, l) ==
  /\ now < MaxClock
  /\ PutResult(UpdateTask(Start, taskId, updates), l)

PutTask(taskId, updates) ==
  PutTaskAs(taskId, updates, Http("updateTask", taskId))

PutContext(updates) ==
  /\ now < MaxClock
  /\ HttpResult(UpdateContext(Start, updates), Success, Http("updateContext", ""))

DeleteAgent(agentId) ==
  /\ now < MaxClock
  /\ HttpResult(RemoveAgent(Start, agentId), Success, Http("removeAgent", agentId))

DeleteTaskReq(taskId) ==
  /\ now < MaxClock
  /\ HttpResult(DeleteTask(Start, taskId), Success, Http("deleteTask", taskId))

\* GET requests: the state is read, nothing else changes.
Get(path) ==
  /\ response' = (IF path = "/state" THEN GetState(state) ELSE GetAgents(state))
  /\ log' = <<>>
  /\ last' = Http("get", path)
  /\ UNCHANGED <<state, storage, websockets, conn, now, objects, db>>

\* The operation a frame type asks for.
FrameOp(type) ==
  CASE type = "agent.register" -> "registerAgent"
    [] type = "agent.update" -> "updateAgent"
    [] type = "task.create" -> "createTask"
    [] type = "task.update" -> "updateTask"
    [] type = "message.send" -> "sendMessage"
    [] type = "context.update" -> "updateContext"
    [] OTHER -> "unknown"

\* A frame as the last thing handled: its operation ("invalid" when a
\* required field is missing), its socket, the id it names and its type.
FrameLast(message, ws) ==
  [ id |-> message.id, ws |-> ws,
    op |-> IF message.has THEN FrameOp(message.type) ELSE "invalid",
    frame |-> message.type ]

\* The "message" listener of an accepted socket, the frame recorded as l.
WsMessageAs(ws, message, l) ==
  /\ now < MaxClock
  /\ conn[ws] = "open"
  /\ (message.type = "agent.register" /\ message.has /\ message.data.id = "")
       => CanAgentUuid(state)
  /\ (message.type = "task.create" /\ message.has /\ message.data.id = "")
       => CanTaskUuid(state)
  /\ Commit(HandleWebSocketMessage(Start, message, ws), NoResponse, l)

WsMessage(ws, message) == WsMessageAs(ws, message, FrameLast(message, ws))

\* A payload that JSON.parse rejects: the listener's catch answers it.
WsUnparsable(ws) ==
  /\ now < MaxClock
  /\ conn[ws] = "open"
  /\ Commit(SendTo(Start, ws, "error", InvalidMsg), NoResponse,
            Last("unparsable", ws, ""))

\* handleWebSocket: a new pair, its server end added to the registry.
Connect ==
  /\ \E w \in Sockets : conn[w] = "unused"
  /\ LET w == CHOOSE x \in Sockets : conn[x] = "unused"
     IN /\ conn' = [conn EXCEPT ![w] = "open"]
        /\ websockets' = websockets \cup {w}
  /\ log' = <<>>
  /\ response' = StatusResponse(101)
  /\ last' = Event("connect")
  /\ UNCHANGED <<state, storage, now, objects, db>>

\* The peer goes away: from now on send() on the socket throws.
Break(w) ==
  /\ conn[w] = "open"
  /\ conn' = [conn EXCEPT ![w] = "failing"]
  /\ log' = <<>>
  /\ response' = NoResponse
  /\ last' = Event("break")
  /\ UNCHANGED <<state, storage, websockets, now, objects, db>>

\* Mutant: the "close" listener leaves the registry as it is.
CloseKeeping(w) ==
  /\ conn[w] \in {"open", "failing"}
  /\ conn' = [conn EXCEPT ![w] = "closed"]
  /\ log' = <<>>
  /\ response' = NoResponse
  /\ last' = Event("close")
  /\ UNCHANGED <<state, storage, websockets, now, objects, db>>

\* The "close" listener.
Close(w) ==
  /\ conn[w] \in {"open", "failing"}
  /\ conn' = [conn EXCEPT ![w] = "closed"]
  /\ websockets' = websockets \ {w}
  /\ log' = <<>>
  /\ response' = NoResponse
  /\ last' = Event("close")
  /\ UNCHANGED <<state, storage, now, objects, db>>

\* The constructor: the state of a new instance over the same storage.
Construct(stored) ==
  IF stored.present THEN Reconstruct(stored)
  ELSE [DefaultState EXCEPT !.createdAt = now, !.updatedAt = now]

\* The instance is evicted and constructed again on the next request; its
\* sockets are gone with it.
Restart ==
  /\ state' = Construct(storage)
  /\ websockets' = {}
  /\ conn' = [w \in Sockets |->
                IF conn[w] \in {"open", "failing"} THEN "closed" ELSE conn[w]]
  /\ log' = <<>>
  /\ response' = NoResponse
  /\ last' = Event("restart")
  /\ UNCHANGED <<storage, now, objects, db>>

\* Frames that carry their required fields.
Frames ==
  { Frame("agent.register", TRUE, "", d, NoUpdates, NoMessageData, EmptyMap) :
      d \in { [id |-> "a1", status |-> "idle"], [id |-> "", status |-> ""] } }
  \cup { Frame("agent.update", TRUE, a, NoAgentData, u, NoMessageData, EmptyMap) :
           a \in UpdatedAgentIds, u \in AgentUpdates }
  \cup { Frame("task.create", TRUE, "", d, NoUpdates, NoMessageData, EmptyMap) :
           d \in { [id |-> "t1", status |-> ""] } }
  \cup { Frame("task.update", TRUE, t, NoAgentData, u, NoMessageData, EmptyMap) :
           t \in TaskIds, u \in { [id |-> "", status |-> "completed"] } }
  \cup { Frame("message.send", TRUE, "", NoAgentData, NoUpdates, m, EmptyMap) :
           m \in { [id |-> 0, type |-> "", hasId |-> FALSE] } }
  \cup { Frame("context.update", TRUE, "", NoAgentData, NoUpdates, NoMessageData, u) :
           u \in { "k" :> "v1" } }

Init ==
  /\ state = DefaultState
  /\ storage = NoSnapshot
  /\ websockets = {}
  /\ conn = [w \in Sockets |-> "unused"]
  /\ now = 0
  /\ log = <<>>
  /\ response = NoResponse
  /\ last = Event("construct")
  /\ objects = <<>>
  /\ db = EmptyDb

Next ==
  \/ \E d \in InitDatas : PostInitialize(d)
  \/ \E d \in AgentDatas : PostAgents(d)
  \/ \E d \in TaskDatas : PostTasks(d)
  \/ \E d \in MessageDatas : PostMessages(d)
  \/ \E a \in UpdatedAgentIds, u \in AgentUpdates : PutAgent(a, u)
  \/ \E t \in TaskIds, u \in TaskUpdates : PutTask(t, u)
  \/ \E u \in ContextUpdates : PutContext(u)
  \/ \E a \in UpdatedAgentIds : DeleteAgent(a)
  \/ \E t \in TaskIds : DeleteTaskReq(t)
  \/ \E p \in {"/state", "/agents"} : Get(p)
  \/ \E w \in Sockets, f \in Frames : WsMessage(w, f)
  \/ Connect
  \/ \E w \in Sockets : Break(w)
  \/ \E w \in Sockets : Close(w)
  \/ Restart

Spec == Init /\ [][Next]_vars

(* ------------------ the streaming surface with its errors ------------- *)

\* Frames of a known type that lack a required field.  The update frames
\* still name an id: the one that has no `updates`.
MissingFrames ==
  { Frame(t, FALSE, "", NoAgentData, NoUpdates, NoMessageData, EmptyMap) :
      t \in { "agent.register", "task.create", "message.send",
              "context.update" } }
  \cup { Frame("agent.update", FALSE, a, NoAgentData, NoUpdates, NoMessageData,
               EmptyMap) : a \in UpdatedAgentIds }
  \cup { Frame("task.update", FALSE, t, NoAgentData, NoUpdates, NoMessageData,
               EmptyMap) : t \in TaskIds }

\* A frame whose type is none of the six.
UnknownFrames ==
  { Frame("agent.delete", TRUE, "", NoAgentData, NoUpdates, NoMessageData,
          EmptyMap) }

StreamFrames == Frames \cup MissingFrames \cup UnknownFrames

StreamNext ==
  \/ Connect
  \/ \E w \in Sockets : Close(w)
  \/ \E w \in Sockets, f \in StreamFrames : WsMessage(w, f)
  \/ \E w \in Sockets : WsUnparsable(w)
  \/ \E w \in Sockets : Break(w)
  \/ \E d \in InitDatas : PostInitialize(d)
  \/ \E d \in MessageDatas : PostMessages(d)

StreamSpec == Init /\ [][StreamNext]_vars

(* ---------------------- the router and the runtime -------------------- *)

\* Number of requests the runtime holds for one instance.
MaxInbox == 1

ProjectNames == {"A", "B"}

\* idFromName: the object id of a name, the same at every call and different
\* for different names.
IdFromName(name) == <<"id", name>>

ObjectIds == { IdFromName(n) : n \in ProjectNames }

\* One object of the namespace: whether an instance of it is in memory
\* (live), whether the callback its constructor gave to
\* blockConcurrencyWhile has finished (loaded), the instance's state and
\* registry, the object's storage and the requests waiting for it.  The
\* state of an instance that is not loaded is not assigned yet.
NewObject ==
  [ state |-> DefaultState, storage |-> NoSnapshot, websockets |-> {},
    live |-> FALSE, loaded |-> FALSE, inbox |-> <<>> ]

\* What the router forwards: POST /agents, GET /agents, a WebSocket upgrade.
RuntimeRequests ==
  { [data |-> [id |-> "a1", status |-> ""], op |-> "registerAgent"],
    [data |-> NoAgentData, op |-> "get"],
    [data |-> NoAgentData, op |-> "upgrade"] }

\* Mutant: every name is routed to the object of the first project.
RouteShared(name, req) ==
  LET o == IdFromName("A")
      inst == objects[o]
  IN /\ Len(inst.inbox) < MaxInbox
     /\ objects' = [objects EXCEPT ![o] =
                      [inst EXCEPT !.live = TRUE, !.inbox = Append(@, req)]]
     /\ log' = <<>>
     /\ response' = NoResponse
     /\ last' = Last("route", NoSocket, name)
     /\ UNCHANGED <<state, storage, websockets, conn, now, db>>

\* The route /api/projects/:id/:subpath: the request goes to the stub of
\* the object named by :id.  The runtime constructs the instance when none
\* is in memory and holds the request until it can be delivered.
Route(name, req) ==
  LET o == IdFromName(name)
      inst == objects[o]
  IN /\ Len(inst.inbox) < MaxInbox
     /\ objects' = [objects EXCEPT ![o] =
                      [inst EXCEPT !.live = TRUE, !.inbox = Append(@, req)]]
     /\ log' = <<>>
     /\ response' = NoResponse
     /\ last' = Last("route", NoSocket, name)
     /\ UNCHANGED <<state, storage, websockets, conn, now, db>>

\* The callback of blockConcurrencyWhile runs to its end.
Load(name) ==
  LET o == IdFromName(name)
      inst == objects[o]
  IN /\ inst.live /\ ~inst.loaded
     /\ objects' = [objects EXCEPT ![o] =
                      [inst EXCEPT !.loaded = TRUE,
                                   !.state = Construct(inst.storage)]]
     /\ log' = <<>>
     /\ response' = NoResponse
     /\ last' = Last("load", NoSocket, name)
     /\ UNCHANGED <<state, storage, websockets, conn, now, db>>

\* Mutant: events are delivered as soon as the instance exists.
ReadyAtOnce(inst) == inst.live

\* blockConcurrencyWhile: no event is delivered to the instance before the
\* callback has finished.
Ready(inst) == inst.live /\ inst.loaded

\* fetch() of the instance on the request at the head of its inbox.  On an
\* instance whose state is not assigned the handler throws.
Handle(inst, req) ==
  LET c0 == Ctx(inst.state, inst.storage, inst.websockets)
  IN CASE ~inst.loaded -> [c |-> Throw(c0, TypeError), resp |-> Uncaught]
       [] req.op = "registerAgent" ->
            LET c == RegisterAgent(c0, req.data, NoSocket)
            IN [ c |-> c,
                 resp |-> IF Ok(c)
                          THEN JsonResponse("agent", { JsonAgent(a) : a \in c.ret })
                          ELSE Uncaught ]
       [] req.op = "get" -> [c |-> c0, resp |-> GetAgents(inst.state)]
       [] req.op = "upgrade" ->
            [ c |-> [c0 EXCEPT !.socks =
                       @ \cup {CHOOSE w \in Sockets : conn[w] = "unused"}],
              resp |-> StatusResponse(101) ]

Deliver(name) ==
  LET o == IdFromName(name)
      inst == objects[o]
  IN /\ inst.inbox # <<>>
     /\ Ready(inst)
     /\ LET req == Head(inst.inbox)
            h == Handle(inst, req)
        IN /\ req.op = "registerAgent" => now < MaxClock
           /\ req.op = "upgrade" => \E w \in Sockets : conn[w] = "unused"
           /\ objects' = [objects EXCEPT ![o] =
                            [inst EXCEPT !.state = h.c.st, !.storage = h.c.store,
                                         !.websockets = h.c.socks,
                                         !.inbox = Tail(@)]]
           /\ conn' = [w \in Sockets |->
                         IF w \in h.c.socks \ inst.websockets THEN "open"
                         ELSE IF w \in inst.websockets \ h.c.socks THEN "closed"
                         ELSE conn[w]]
           /\ log' = h.c.log
           /\ response' = h.resp
           /\ now' = IF req.op = "registerAgent" THEN Now ELSE now
           /\ last' = Last(req.op, NoSocket, name)
     /\ UNCHANGED <<state, storage, websockets, db>>

\* The runtime discards an idle instance; the storage stays.
Evict(name) ==
  LET o == IdFromName(name)
      inst == objects[o]
  IN /\ inst.live /\ inst.loaded /\ inst.inbox = <<>>
     /\ objects' = [objects EXCEPT ![o] =
                      [inst EXCEPT !.live = FALSE, !.loaded = FALSE,
                                   !.state = DefaultState, !.websockets = {}]]
     /\ conn' = [w \in Sockets |->
                   IF w \in inst.websockets THEN "closed" ELSE conn[w]]
     /\ log' = <<>>
     /\ response' = NoResponse
     /\ last' = Last("evict", NoSocket, name)
     /\ UNCHANGED <<state, storage, websockets, now, db>>

RuntimeInit ==
  /\ state = DefaultState
  /\ storage = NoSnapshot
  /\ websockets = {}
  /\ conn = [w \in Sockets |-> "unused"]
  /\ now = 0
  /\ log = <<>>
  /\ response = NoResponse
  /\ last = Event("construct")
  /\ objects = [o \in ObjectIds |-> NewObject]
  /\ db = EmptyDb

RuntimeNext ==
  \/ \E n \in ProjectNames, r \in RuntimeRequests : Route(n, r)
  \/ \E n \in ProjectNames : Load(n)
  \/ \E n \in ProjectNames : Deliver(n)
  \/ \E n \in ProjectNames : Evict(n)

RuntimeSpec == RuntimeInit /\ [][RuntimeNext]_vars

(* ------------------------ the filtered queries ------------------------ *)

\* Tasks as createTask stores them, here with their tags.
QueryTasks ==
  { [id |-> "t1", status |-> "todo", tags |-> {"foo"}],
    [id |-> "t2", status |-> "in-progress", tags |-> {"bar"}],
    [id |-> "t3", status |-> "todo", tags |-> {"foo", "baz"}],
    [id |-> "t4", status |-> "in-progress", tags |-> {}] }

TaskMaps ==
  { [id \in { t.id : t \in S } |-> CHOOSE t \in S : t.id = id] :
      S \in SUBSET QueryTasks }

\* Histories as sendMessage builds them: ids in send order, no longer than
\* it lets them grow.
Histories ==
  UNION { { [i \in 1..n |-> [id |-> i, type |-> ty[i]]] :
              ty \in [1..n -> {"chat", "status"}] } : n \in 0..HistoryLimit }

\* The search parameters.  A parameter that is absent or empty is "" (for
\* `tags`: no token); `tags` is given by the tokens between its commas;
\* `limit` by what parseInt makes of it, NaN when absent or not a number.
NaN == [n |-> 0, nan |-> TRUE]
ParseInt(n) == [n |-> n, nan |-> FALSE]
StatusParams == {"", "todo", "completed"}
TagsParams == { <<>>, <<"foo">>, <<"foo", "bar">>, <<"qux">>, <<"baz", "">> }
TypeParams == {"", "chat", "system"}
LimitParams == {NaN} \cup { ParseInt(n) : n \in (0 - 1)..(HistoryLimit + 1) }

\* new Set(tags.split(","))
TagSet(tags) == { tags[i] : i \in 1..Len(tags) }

\* Mutant: every tag of the task has to be in the set.
TagsMatchAll(task, tagSet) == task.tags \subseteq tagSet

\* t.tags.some((tag) => tagSet.has(tag))
TagsMatch(task, tagSet) == \E tag \in task.tags : tag \in tagSet

\* GET /tasks: the two filters, one after the other.
FilterTasks(tasks, status, tags) ==
  LET byStatus == IF status # "" THEN { t \in tasks : t.status = status }
                  ELSE tasks
  IN IF tags # <<>> THEN { t \in byStatus : TagsMatch(t, TagSet(tags)) }
     ELSE byStatus

\* arr.filter(pred) for the type test, in order.
RECURSIVE FilterType(_, _)
FilterType(messages, type) ==
  IF messages = <<>> THEN <<>>
  ELSE IF Head(messages).type = type
    THEN <<Head(messages)>> \o FilterType(Tail(messages), type)
    ELSE FilterType(Tail(messages), type)

\* arr.slice(start)
Slice(arr, start) ==
  LET from == IF start < 0
              THEN (IF Len(arr) + start < 0 THEN 0 ELSE Len(arr) + start)
              ELSE (IF start > Len(arr) THEN Len(arr) ELSE start)
  IN SubSeq(arr, from + 1, Len(arr))

\* GET /messages: the type filter, then slice(-limit) unless limit is NaN.
FilterMessages(messages, type, limit) ==
  LET byType == IF type # "" THEN FilterType(messages, type) ELSE messages
  IN IF ~limit.nan THEN Slice(byType, 0 - limit.n) ELSE byType

TasksResponse(tasks) ==
  [agents |-> {}, tasks |-> tasks, status |-> 200, body |-> "tasks"]
MessagesResponse(messages) ==
  [agents |-> {}, status |-> 200, body |-> "messages", messages |-> messages]

\* A query as the request handled last, with its search parameters.
QueryLast(path, status, tags, type, limit) ==
  [ id |-> path, status |-> status, type |-> type, ws |-> NoSocket,
    op |-> "get", tags |-> tags, limit |-> limit ]

GetTasks(status, tags) ==
  /\ response' = TasksResponse(FilterTasks(Values(state.tasks), status, tags))
  /\ log' = <<>>
  /\ last' = QueryLast("/tasks", status, tags, "", NaN)
  /\ UNCHANGED <<state, storage, websockets, conn, now, objects, db>>

\* Mutant: the list the query cut down is stored back as the history.
GetMessagesTrimming(type, limit) ==
  /\ response' = MessagesResponse(FilterMessages(state.messageHistory, type, limit))
  /\ state' = [state EXCEPT
                 !.messageHistory = FilterMessages(@, type, limit)]
  /\ log' = <<>>
  /\ last' = QueryLast("/messages", "", <<>>, type, limit)
  /\ UNCHANGED <<storage, websockets, conn, now, objects, db>>

GetMessages(type, limit) ==
  /\ response' = MessagesResponse(FilterMessages(state.messageHistory, type, limit))
  /\ log' = <<>>
  /\ last' = QueryLast("/messages", "", <<>>, type, limit)
  /\ UNCHANGED <<state, storage, websockets, conn, now, objects, db>>

\* A project with some tasks and some messages.
QueryInit ==
  /\ state \in { [DefaultState EXCEPT !.tasks = MapOf(tm), !.messageHistory = h] :
                    tm \in TaskMaps, h \in Histories }
  /\ storage = Serializable(state)
  /\ websockets = {}
  /\ conn = [w \in Sockets |-> "unused"]
  /\ now = 0
  /\ log = <<>>
  /\ response = NoResponse
  /\ last = Event("construct")
  /\ objects = <<>>
  /\ db = EmptyDb

QueryNext ==
  \/ \E st \in StatusParams, tg \in TagsParams : GetTasks(st, tg)
  \/ \E ty \in TypeParams, lm \in LimitParams : GetMessages(ty, lm)

QuerySpec == QueryInit /\ [][QueryNext]_vars

(* --------------------------- all the queries -------------------------- *)

\* generateAnalytics: the counts over agents and tasks.
GenerateAnalytics(st) ==
  LET agents == Values(st.agents)
      tasks == Values(st.tasks)
      count(S, status) == Cardinality({ x \in S : x.status = status })
  IN [ agentsTotal |-> Cardinality(agents),
       agentsActive |-> count(agents, "active"),
       tasksTotal |-> Cardinality(tasks),
       tasksCompleted |-> count(tasks, "completed"),
       tasksInProgress |-> count(tasks, "in-progress"),
       tasksBlocked |-> count(tasks, "blocked") ]

AnalyticsResponse(st) ==
  IF HasIterators(st.agents) /\ HasIterators(st.tasks)
  THEN [ agents |-> {}, status |-> 200, body |-> "analytics",
         analytics |-> GenerateAnalytics(st) ]
  ELSE Uncaught

\* GET /analytics
GetAnalytics ==
  /\ response' = AnalyticsResponse(state)
  /\ log' = <<>>
  /\ last' = Http("get", "/analytics")
  /\ UNCHANGED <<state, storage, websockets, conn, now, objects, db>>

\* The five queries on a project that has tasks, messages, agents and open
\* sockets.
ReadNext ==
  \/ \E p \in {"/state", "/agents"} : Get(p)
  \/ \E st \in StatusParams, tg \in TagsParams : GetTasks(st, tg)
  \/ \E ty \in TypeParams, lm \in LimitParams : GetMessages(ty, lm)
  \/ GetAnalytics
  \/ Connect
  \/ \E d \in { x \in AgentDatas : x.id = "a1" } : PostAgents(d)

ReadSpec == QueryInit /\ [][ReadNext]_vars

(* ---------------- the request/response side of a command ------------- *)

\* handlePost and handlePut on the payload that the frame carries: the JSON
\* body is handed to the operation as it is.  A frame without its payload
\* stands for the body `null`: registerAgent, createTask and sendMessage
\* read a property of it and throw, Object.assign copies nothing from it.
HandleRequest(c, message) ==
  CASE message.type = "agent.register" ->
         IF message.has THEN RegisterAgent(c, message.data, NoSocket)
         ELSE Throw(c, TypeError)
    [] message.type = "agent.update" ->
         UpdateAgent(c, message.id,
                     IF message.has THEN message.updates ELSE NoUpdates)
    [] message.type = "task.create" ->
         IF message.has THEN CreateTask(c, message.data)
         ELSE Throw(c, TypeError)
    [] message.type = "task.update" ->
         UpdateTask(c, message.id,
                    IF message.has THEN message.updates ELSE NoUpdates)
    [] message.type = "message.send" ->
         IF message.has THEN SendMessage(c, message.message)
         ELSE Throw(c, TypeError)
    [] message.type = "context.update" ->
         UpdateContext(c, IF message.has THEN message.context ELSE EmptyMap)

(* ------------------------- task notifications ------------------------ *)

\* An update of a task as the request handled last, with the status its
\* patch sets ("" when the patch has no status).
PatchLast(ws, id, status) ==
  [id |-> id, status |-> status, ws |-> ws, op |-> "updateTask"]

\* Patches of a task: to completed, to blocked, to another status, and one
\* without a status.
NotifyUpdates ==
  { [id |-> "", status |-> s] : s \in {"completed", "blocked", "in-progress", ""} }

\* PUT /tasks/:id
PutTaskPatch(taskId, updates) ==
  PutTaskAs(taskId, updates, PatchLast(NoSocket, taskId, updates.status))

\* A task.update frame.
WsTaskUpdate(ws, taskId, updates) ==
  WsMessageAs(ws,
              Frame("task.update", TRUE, taskId, NoAgentData, updates,
                    NoMessageData, EmptyMap),
              PatchLast(ws, taskId, updates.status))

\* A message that an agent sends.
AgentMessage ==
  [id |-> 0, type |-> "", agentId |-> "a1", hasId |-> FALSE]

NotifyNext ==
  \/ \E d \in { x \in InitDatas : "settings" \in x.has } : PostInitialize(d)
  \/ \E d \in { x \in TaskDatas : x.id # "" } : PostTasks(d)
  \/ \E t \in TaskIds, u \in NotifyUpdates : PutTaskPatch(t, u)
  \/ \E w \in Sockets, t \in TaskIds, u \in NotifyUpdates : WsTaskUpdate(w, t, u)
  \/ PostMessages(AgentMessage)
  \/ Connect
  \/ \E w \in Sockets : Break(w)

NotifySpec == Init /\ [][NotifyNext]_vars

(* ------------------------ the Project Directory ----------------------- *)

\* JSON null and SQL NULL.
Null == "<null>"

ProjectStatuses == {"planning", "active", "paused", "completed", "archived"}

\* A JSON body of the projects endpoints; `has` names the keys it has.
ProjectData(has, id, name, description, status) ==
  [ id |-> id, status |-> status, has |-> has, name |-> name,
    description |-> description ]

\* data[key] ?? null
OrNull(data, key) == IF key \in data.has THEN data[key] ELSE Null

\* What a method of the service has done so far: the tables, the writes it
\* ran, the pending exception and the project it returns (none: null).
DbCtx(tables) == [log |-> <<>>, db |-> tables, err |-> "", ret |-> {}]

\* A statement that writes, as run() receives it.
Run(d, query, params) ==
  [d EXCEPT !.log = Append(@, [kind |-> "run", query |-> query, params |-> params])]

MapProject(row) ==
  [ id |-> row.id, createdAt |-> row.created_at * 1000,
    updatedAt |-> row.updated_at * 1000,
    status |-> IF row.status = Null THEN "planning" ELSE row.status,
    name |-> row.name, description |-> IF row.description = Null THEN "" ELSE row.description ]

GetProject(tables, id) ==
  IF id \in DOMAIN tables.projects THEN {MapProject(tables.projects[id])}
  ELSE {}

\* createProject.  The INSERT fails on an id that is taken (PRIMARY KEY) and
\* on a name that is NULL (NOT NULL).
CreateProject(d, data) ==
  LET id == IF OrNull(data, "id") # Null THEN data.id
            ELSE CHOOSE u \in ProjectUuids : u \notin DOMAIN d.db.projects
      row == [ id |-> id, status |-> IF OrNull(data, "status") = Null THEN "planning"
                          ELSE data.status,
               name |-> OrNull(data, "name"),
               description |-> OrNull(data, "description"),
               created_at |-> now, updated_at |-> now ]
      d1 == Run(d, "INSERT INTO projects", <<id>>)
  IN IF id \in DOMAIN d.db.projects \/ row.name = Null
     THEN [d1 EXCEPT !.err = "constraint failed"]
     ELSE [d1 EXCEPT !.db.projects = (id :> row) @@ @,
                     !.ret = {MapProject(row)}]

AllowedUpdates == <<"name", "description", "status">>

\* Mutant: a null value counts as a key that was not supplied.
SetsNonNull(data, keys) ==
  SelectSeq(keys, LAMBDA k : k \in data.has /\ data[k] # Null)

\* The keys of the patch that updateProject writes, in the order of
\* allowedUpdates.
Sets(data, keys) == SelectSeq(keys, LAMBDA k : k \in data.has)

\* UPDATE projects SET <sets>, updated_at=unixepoch() WHERE id=?
UpdateRow(row, data, sets) ==
  [ id |-> row.id,
    status |-> IF "status" \in sets THEN data.status ELSE row.status,
    name |-> IF "name" \in sets THEN data.name ELSE row.name,
    description |-> IF "description" \in sets THEN data.description
                    ELSE row.description,
    created_at |-> row.created_at, updated_at |-> now ]

\* A value that `data.status &&` lets through to the membership test.
Truthy(v) == v \notin {Null, ""}

Range(seq) == { seq[i] : i \in 1..Len(seq) }

\* Mutant: without the early return, the UPDATE always runs and sets
\* updated_at.
UpdateProjectAlwaysWrites(d, id, data) ==
  LET sets == Range(Sets(data, AllowedUpdates))
      d1 == Run(d, "UPDATE projects", <<Sets(data, AllowedUpdates), id>>)
  IN IF "status" \in data.has /\ Truthy(data.status)
        /\ data.status \notin ProjectStatuses
     THEN [d EXCEPT !.err = "Invalid status"]
     ELSE IF id \notin DOMAIN d.db.projects THEN d1
     ELSE LET row == UpdateRow(d.db.projects[id], data, sets)
          IN [d1 EXCEPT !.db.projects[id] = row, !.ret = {MapProject(row)}]

UpdateProject(d, id, data) ==
  LET order == Sets(data, AllowedUpdates)
      sets == Range(order)
      d1 == Run(d, "UPDATE projects", <<order, id>>)
  IN IF "status" \in data.has /\ Truthy(data.status)
        /\ data.status \notin ProjectStatuses
     THEN [d EXCEPT !.err = "Invalid status"]
     ELSE IF order = <<>> THEN [d EXCEPT !.ret = GetProject(d.db, id)]
     ELSE IF id \notin DOMAIN d.db.projects THEN d1
     ELSE IF "name" \in sets /\ data.name = Null
       THEN [d1 EXCEPT !.err = "constraint failed"]
     ELSE LET row == UpdateRow(d.db.projects[id], data, sets)
          IN [d1 EXCEPT !.db.projects[id] = row, !.ret = {MapProject(row)}]

\* The rows of a table that do not reference the project.
Others(table, id) ==
  [k \in { x \in DOMAIN table : table[x].project_id # id } |-> table[k]]

\* Mutant: the foreign keys are not enforced, only the project's row goes.
DeleteProjectOnly(d, id) ==
  [Run(d, "DELETE FROM projects", <<id>>) EXCEPT
     !.db.projects = [k \in DOMAIN @ \ {id} |-> @[k]]]

\* deleteProject: the DELETE, with ON DELETE CASCADE on agents and tasks.
DeleteProject(d, id) ==
  [Run(d, "DELETE FROM projects", <<id>>) EXCEPT
     !.db.projects = [k \in DOMAIN @ \ {id} |-> @[k]],
     !.db.agents = Others(@, id),
     !.db.tasks = Others(@, id)]

\* An agents or tasks row inserted over a connection that enforces the
\* foreign keys: rejected when the id is taken or the project is missing.
InsertRow(d, table, id, projectId) ==
  LET d1 == Run(d, "INSERT INTO " \o table, <<id, projectId>>)
  IN IF id \in DOMAIN d.db[table] \/ projectId \notin DOMAIN d.db.projects
     THEN [d1 EXCEPT !.err = "constraint failed"]
     ELSE [d1 EXCEPT !.db[table] = (id :> [project_id |-> projectId]) @@ @]

\* handleProjects: what the route answers.
ProjectResponse(status, projects) ==
  [agents |-> {}, projects |-> projects, status |-> status, body |-> "project"]

DirectoryLast(op, id, data) ==
  [id |-> id, data |-> data, ws |-> NoSocket, op |-> op]

DirectoryCommit(d, resp, l) ==
  /\ db' = d.db
  /\ log' = d.log
  /\ response' = resp
  /\ last' = l
  /\ UNCHANGED <<state, storage, websockets, conn, now, objects>>

NoData == ProjectData({}, Null, Null, Null, Null)

PostProject(data) ==
  LET d == CreateProject(DbCtx(db), data)
  IN DirectoryCommit(d,
       IF d.err # "" THEN ProjectResponse(500, {})
       ELSE ProjectResponse(201, d.ret),
       DirectoryLast("createProject", "", data))

PutProject(id, data) ==
  LET d == UpdateProject(DbCtx(db), id, data)
  IN DirectoryCommit(d,
       IF d.err = "Invalid status" THEN ProjectResponse(400, {})
       ELSE IF d.err # "" THEN ProjectResponse(500, {})
       ELSE IF d.ret = {} THEN ProjectResponse(404, {})
       ELSE ProjectResponse(200, d.ret),
       DirectoryLast("updateProject", id, data))

\* Mutant: deleting the record also discards the coordinator of that id.
DeleteProjectReqPurging(id) ==
  /\ db' = DeleteProject(DbCtx(db), id).db
  /\ log' = DeleteProject(DbCtx(db), id).log
  /\ response' = ProjectResponse(204, {})
  /\ last' = DirectoryLast("deleteProject", id, NoData)
  /\ state' = DefaultState
  /\ storage' = NoSnapshot
  /\ UNCHANGED <<websockets, conn, now, objects>>

DeleteProjectReq(id) ==
  DirectoryCommit(DeleteProject(DbCtx(db), id), ProjectResponse(204, {}),
                  DirectoryLast("deleteProject", id, NoData))

InsertDependent(table, id, projectId) ==
  DirectoryCommit(InsertRow(DbCtx(db), table, id, projectId), NoResponse,
                  DirectoryLast("insert", id, NoData))

\* Largest value of unixepoch() in the Directory.
MaxEpoch == 1

\* unixepoch() moves on.
Tick ==
  /\ now < MaxEpoch
  /\ now' = now + 1
  /\ log' = <<>>
  /\ response' = NoResponse
  /\ last' = Event("tick")
  /\ UNCHANGED <<state, storage, websockets, conn, objects, db>>

ProjectIds == {"p1", "p2"}

ProjectDatas ==
  { ProjectData({"id", "name", "description"}, "p1", "n1", "d1", Null),
    ProjectData({"id", "name", "status"}, "p2", "n2", Null, "active") }

\* Bodies of PUT /api/projects/:id.
ProjectPatches ==
  { ProjectData({}, Null, Null, Null, Null),
    ProjectData({"id"}, "p2", Null, Null, Null),
    ProjectData({"name"}, Null, "n2", Null, Null),
    ProjectData({"name"}, Null, Null, Null, Null),
    ProjectData({"description"}, Null, Null, Null, Null),
    ProjectData({"status"}, Null, Null, Null, "active"),
    ProjectData({"status"}, Null, Null, Null, "done"),
    ProjectData({"status"}, Null, Null, Null, ""),
    ProjectData({"name", "status"}, Null, "n2", Null, "completed") }

Dependents ==
  { <<"tasks", "t1", "p1">>, <<"tasks", "t2", "p2">>, <<"agents", "ag1", "p1">>,
    <<"tasks", "t1", "p3">> }

DirectoryNext ==
  \/ \E data \in ProjectDatas : PostProject(data)
  \/ \E id \in {"p1", "p3"}, data \in ProjectPatches : PutProject(id, data)
  \/ \E id \in ProjectIds \cup {"p3"} : DeleteProjectReq(id)
  \/ \E x \in Dependents : InsertDependent(x[1], x[2], x[3])
  \/ Tick

DirectorySpec == Init /\ [][DirectoryNext]_vars

(* ------------------------------- claims ------------------------------- *)

History == state.messageHistory

BroadcastTypes ==
  { "project.initialized", "agent.joined", "agent.updated", "agent.left",
    "task.created", "task.updated", "task.deleted", "message.new",
    "context.updated" }

Mutators ==
  { "initialize", "registerAgent", "updateAgent", "removeAgent", "createTask",
    "updateTask", "deleteTask", "sendMessage", "updateContext" }

\* The command handled last succeeded: a 200 answer, or no error frame.
Succeeded ==
  IF last.ws = NoSocket THEN response.status = 200
  ELSE \A i \in 1..Len(log) : log[i].type # "error"

\* Before entry i of l, a snapshot was written that holds the state entry i
\* was sent in.
PutBefore(l, i) ==
  \E j \in 1..(i - 1) : l[j].kind = "put" /\ l[j].snap = l[i].snap

\* C1: in every command, each broadcast frame is sent after the put of a
\* snapshot that holds the state the frame announces; and a mutating command
\* that succeeds (removeAgent of an absent agent aside) has written the
\* snapshot of the state it leaves.
C1_PersistBeforeBroadcast ==
  [][ /\ \A i \in 1..Len(log') :
           log'[i].type \in BroadcastTypes => PutBefore(log', i)
      /\ ( /\ last'.op \in Mutators
           /\ Succeeded'
           /\ ~(last'.op = "removeAgent" /\ last'.id \notin DOMAIN state.agents.m) )
         => /\ \E j \in 1..Len(log') :
                 log'[j].kind = "put" /\ log'[j].snap = Serializable(state')
            /\ storage' = Serializable(state')
    ]_vars

\* An updateTask that set a task completed, with a socket listening: the
\* put, task.updated, then the notification's put and message.new.
C1_Witness ==
  /\ last.op = "updateTask"
  /\ Succeeded
  /\ Len(log) >= 4
  /\ log[1].kind = "put"
  /\ log[2].type = "task.updated" /\ log[2].ok
  /\ log[Len(log)].type = "message.new" /\ log[Len(log)].ok

\* C2: once a snapshot has been written (a mutating command has succeeded),
\* the snapshot equals the in-memory ProjectState in its list form.
C2_SnapshotEqualsState ==
  storage.present => storage = Serializable(state)

\* C3: no agent entry of a written snapshot has a websocket.
C3_NoSocketInSnapshot ==
  /\ storage.present => \A e \in storage.agents : e[2].websocket = NoSocket
  /\ \A i \in 1..Len(log) :
       log[i].kind = "put" =>
         \A e \in log[i].snap.agents : e[2].websocket = NoSocket

\* C4: no agent in the answer to GET /agents or GET /state has a websocket
\* key.
C4_NoSocketInQuery ==
  (last.op = "get" /\ response.status = 200)
    => \A a \in response.agents : a.websocket = "absent"

\* The state with the live-connection handles left out of the comparison.
WithoutSockets(st) ==
  [st EXCEPT !.agents.m = [k \in DOMAIN @ |-> SerializeAgent(@[k])]]

\* C5: the state can be persisted, and what the constructor rebuilds from
\* the snapshot is the state again: the same agent and task mappings,
\* history, scalars, context and settings.
C5_RoundTrip ==
  /\ HasIterators(state.agents) /\ HasIterators(state.tasks)
  /\ WithoutSockets(Reconstruct(Serializable(state))) = WithoutSockets(state)

\* C6: the message history is never longer than the limit.
C6_HistoryBounded == Len(History) <= HistoryLimit

Min2(a, b) == IF a <= b THEN a ELSE b

\* h2 is h with one message appended and the oldest entries dropped down to
\* the limit, the order of the kept ones unchanged.
Window(h, h2) ==
  /\ Len(h2) = Min2(Len(h) + 1, HistoryLimit)
  /\ \A i \in 1..(Len(h2) - 1) : h2[i] = h[Len(h) + 1 - Len(h2) + i]

\* C7: every sendMessage, and every notification of updateTask, leaves the
\* history before it with the new message at the end, cut to its most
\* recent entries, in order.
C7_SlidingWindow ==
  [][ /\ last'.op = "sendMessage" => Window(History, History')
      /\ last'.op = "updateTask" =>
           (History' = History \/ Window(History, History'))
    ]_vars

\* A send on a full history: the oldest message is gone, the rest moved up.
C7_Witness ==
  /\ last.op = "sendMessage"
  /\ Len(History) = HistoryLimit
  /\ History[Len(History)].id = HistoryLimit + 1
  /\ History[1].id = 2

\* C8: no two agents, no two tasks and no two messages share an id.
C8_UniqueIds ==
  /\ \A j, k \in DOMAIN state.agents.m :
       state.agents.m[j].id = state.agents.m[k].id => j = k
  /\ \A j, k \in DOMAIN state.tasks.m :
       state.tasks.m[j].id = state.tasks.m[k].id => j = k
  /\ \A i, j \in 1..Len(History) : History[i].id = History[j].id => i = j

\* The id a registration answered with: in the response body, or in the
\* welcome frame.
RegisteredIds ==
  IF last.ws = NoSocket THEN { a.id : a \in response.agents }
  ELSE { log[i].msg : i \in { j \in 1..Len(log) : log[j].type = "welcome" } }

\* C9: after a registration the agent returned is stored under a non-empty
\* id that no other agent of the project has, with status active.
C9_RegisteredAgent ==
  (last.op = "registerAgent" /\ Succeeded) =>
    /\ RegisteredIds # {}
    /\ \A a \in response.agents : a.status = "active"
    /\ \A id \in RegisteredIds :
         /\ id # ""
         /\ id \in DOMAIN state.agents.m
         /\ state.agents.m[id].id = id
         /\ state.agents.m[id].status = "active"
         /\ \A k \in DOMAIN state.agents.m \ {id} : state.agents.m[k].id # id

\* No entry of the collection is stored under the id or carries it.
Unknown(coll, id) ==
  \A k \in DOMAIN coll.m : k # id /\ coll.m[k].id # id

\* NotFound as the transport encodes it: status 404, or one error frame
\* with the text, sent to the issuing socket and to nobody else.
NotFoundAnswer(text) ==
  IF last.ws = NoSocket THEN response.status = 404
  ELSE /\ Len(log) = 1
       /\ log[1].type = "error" /\ log[1].to = last.ws /\ log[1].ok
       /\ log[1].msg = text

\* C10: an update of an agent or task whose id is not in the project is
\* answered NotFound, on both transports.
C10_UpdateMissingIsNotFound ==
  [][ /\ (last'.op = "updateAgent" /\ Unknown(state.agents, last'.id))
           => NotFoundAnswer("Agent not found")'
      /\ (last'.op = "updateTask" /\ Unknown(state.tasks, last'.id))
           => NotFoundAnswer("Task not found")'
    ]_vars

\* The command handled last was answered with an error frame.
ErrorAnswered == \E i \in 1..Len(log) : log[i].type = "error"

\* Socket w is sent a frame of the type, once, and the send succeeds.
ReceivesOnce(l, w, type) ==
  /\ Cardinality({ i \in 1..Len(l) : l[i].to = w /\ l[i].type = type }) = 1
  /\ \A i \in 1..Len(l) : (l[i].to = w /\ l[i].type = type) => l[i].ok

\* C11: a frame answered with an error (NotFound, missing field, unknown
\* type, unparsable payload) leaves its socket open and in the registry, the
\* error goes to that socket alone, and every broadcast of any step reaches
\* each open socket of the registry.
C11_ErrorKeepsConnection ==
  [][ /\ (last'.ws # NoSocket /\ ErrorAnswered') =>
           /\ last'.ws \in websockets'
           /\ conn'[last'.ws] = "open"
           /\ websockets' = websockets
           /\ \A i \in 1..Len(log') :
                log'[i].type = "error" => log'[i].to = last'.ws
      /\ \A w \in websockets : \A i \in 1..Len(log') :
           (conn[w] = "open" /\ log'[i].type \in BroadcastTypes)
             => ReceivesOnce(log', w, log'[i].type)
    ]_vars

\* An error frame answered on w1 while w2 is open: both stay registered and
\* w2 got nothing.
C11_Witness ==
  /\ last.ws = "w1" /\ last.op \in {"invalid", "unknown", "unparsable", "updateTask"}
  /\ ErrorAnswered
  /\ websockets = {"w1", "w2"} /\ conn["w2"] = "open"
  /\ \A i \in 1..Len(log) : log[i].to = "w1"

\* The text that names the field a frame of the type lacks.
MissingText(type) ==
  CASE type = "agent.register" -> "Agent data is missing"
    [] type = "agent.update" -> "Agent ID or updates are missing"
    [] type = "task.create" -> "Task data is missing"
    [] type = "task.update" -> "Task ID or updates are missing"
    [] type = "message.send" -> "Message data is missing"
    [] type = "context.update" -> "Context data is missing"

\* C12: a frame of a known type without a required field is answered with
\* one error frame that names the field and is no NotFound text, sent to its
\* socket; state, snapshot, registry and sockets stay as they were, also
\* when the id it names does not exist.
C12_MissingFieldIsRejected ==
  [][ last'.op = "invalid" =>
        /\ Len(log') = 1
        /\ log'[1].type = "error" /\ log'[1].to = last'.ws /\ log'[1].ok
        /\ log'[1].msg = MissingText(last'.frame)
        /\ log'[1].msg \notin NotFoundMsgs
        /\ state' = state /\ storage' = storage
        /\ websockets' = websockets /\ conn' = conn
    ]_vars

\* A task.update without updates for a task that does not exist, with a
\* second socket open: the answer is the missing-field text.
C12_Witness ==
  /\ last.op = "invalid" /\ last.frame = "task.update" /\ last.id = "t1"
  /\ "t1" \notin DOMAIN state.tasks.m
  /\ log[1].msg = "Task ID or updates are missing"
  /\ Cardinality(websockets) = 2

\* The sockets a broadcast frame of the command could not be sent to.
FailedTo(l) ==
  { l[i].to : i \in { j \in 1..Len(l) : l[j].type \in BroadcastTypes /\ ~l[j].ok } }

Designated(op) ==
  CASE op = "initialize" -> "project.initialized"
    [] op = "registerAgent" -> "agent.joined"
    [] op = "updateAgent" -> "agent.updated"
    [] op = "removeAgent" -> "agent.left"
    [] op = "createTask" -> "task.created"
    [] op = "updateTask" -> "task.updated"
    [] op = "deleteTask" -> "task.deleted"
    [] op = "sendMessage" -> "message.new"
    [] op = "updateContext" -> "context.updated"

\* The frames of the type sent to the socket.
SentTo(l, w, type) == { i \in 1..Len(l) : l[i].to = w /\ l[i].type = type }

BroadcastsIn(l) == { i \in 1..Len(l) : l[i].type \in BroadcastTypes }

\* The step removes an agent that is not there.
RemovesNothing ==
  last'.op = "removeAgent" /\ last'.id \notin DOMAIN state.agents.m

Welcomes == { i \in 1..Len(log) : log[i].type = "welcome" }

\* The agents of a written snapshot that carry the id.
AgentsOf(snap, id) == { e \in snap.agents : e[1] = id /\ e[2].id = id }

\* C15: a registration over a socket that succeeds sends one welcome frame,
\* to that socket, as the last effect: after the put of the state the frame
\* shows and after every agent.joined frame, its own included; the frame
\* names the agent's id and the state it shows holds that agent.  Nothing
\* else sends a welcome.
C15_WelcomeAfterJoin ==
  /\ (last.op = "registerAgent" /\ last.ws # NoSocket /\ Succeeded) =>
       /\ Welcomes = {Len(log)}
       /\ log[Len(log)].to = last.ws /\ log[Len(log)].ok
       /\ PutBefore(log, Len(log))
       /\ SentTo(log, last.ws, "agent.joined") # {}
       /\ AgentsOf(log[Len(log)].snap, log[Len(log)].msg) # {}
       /\ log[Len(log)].msg # ""
  /\ (last.op # "registerAgent" \/ last.ws = NoSocket) => Welcomes = {}

\* A registration over one of two registered sockets: the put, agent.joined
\* to both, then the welcome to the registering one.
C15_Witness ==
  /\ last.op = "registerAgent" /\ last.ws # NoSocket /\ Succeeded
  /\ Cardinality(websockets) = 2
  /\ Len(log) = 4
  /\ log[1].kind = "put"
  /\ log[2].type = "agent.joined" /\ log[3].type = "agent.joined"
  /\ log[4].type = "welcome" /\ log[4].to = last.ws
  /\ log[4].msg \in DOMAIN state.agents.m

\* The state that the completed commands have left: what the snapshot
\* holds, or the state of construction when none was written.
Durable ==
  IF storage.present THEN Reconstruct(storage)
  ELSE [state EXCEPT !.agents = MapOf(EmptyMap)]

\* C16: what a query answers is read from the state left by the completed
\* commands; nothing of a mutation whose snapshot write did not complete
\* shows in it.
C16_QuerySeesCompletedState ==
  (last.op = "get" /\ response.status = 200) =>
    response = IF last.id = "/state" THEN GetState(Durable)
               ELSE GetAgents(Durable)

\* A request of the object's inbox is delivered in this step.
Delivered(o) == Len(objects'[o].inbox) < Len(objects[o].inbox)

\* s is the beginning of t.
IsPrefix(s, t) == Len(s) <= Len(t) /\ SubSeq(t, 1, Len(s)) = s

\* C17: a request is delivered only to an instance whose load has finished,
\* and then runs on the state the stored snapshot gives and is answered;
\* the load leaves the state reconstructed from the storage; and a request
\* that waits, before or during the load, stays in the inbox until it is
\* delivered.
C17_InitializationBarrier ==
  [][ \A o \in ObjectIds :
        /\ Delivered(o) =>
             /\ objects[o].live /\ objects[o].loaded
             /\ objects[o].storage.present =>
                  Serializable(objects[o].state) = objects[o].storage
             /\ objects'[o].inbox = Tail(objects[o].inbox)
             /\ response'.status \in {200, 101}
        /\ ~Delivered(o) => IsPrefix(objects[o].inbox, objects'[o].inbox)
        /\ (~objects[o].loaded /\ objects'[o].loaded) =>
             /\ objects'[o].state = Construct(objects[o].storage)
             /\ objects'[o].inbox = objects[o].inbox
    ]_vars

\* A request waits at an instance that is loading a stored snapshot.
C17_Witness ==
  \E o \in ObjectIds :
    /\ objects[o].live /\ ~objects[o].loaded
    /\ objects[o].storage.present
    /\ objects[o].inbox # <<>>
    /\ last.op = "route"

\* C18: a step for the project of one name (a request routed, delivered, a
\* load, an eviction) leaves the object of every other name as it was:
\* state, snapshot, registry and inbox; and none of its frames goes to a
\* socket of another object.
C18_InstancesIndependent ==
  [][ \A q \in ObjectIds \ {IdFromName(last'.id)} :
        /\ objects'[q] = objects[q]
        /\ \A i \in 1..Len(log') : log'[i].to \notin objects[q].websockets
    ]_vars

\* A registration delivered to A with a socket of its own, while B has a
\* socket and no snapshot: the frame went to A's socket only.
C18_Witness ==
  /\ last.op = "registerAgent" /\ last.id = "A" /\ response.status = 200
  /\ objects[IdFromName("A")].websockets # {}
  /\ objects[IdFromName("B")].websockets # {}
  /\ ~objects[IdFromName("B")].storage.present
  /\ \E i \in 1..Len(log) : log[i].type = "agent.joined"
  /\ \A i \in 1..Len(log) :
       log[i].kind = "send" => log[i].to \in objects[IdFromName("A")].websockets

\* C19: the task query answers with the tasks of the project that have the
\* status asked for, if one is, and share a tag with the set asked for, if
\* one is; with those and no others.
C19_TaskFilter ==
  (last.op = "get" /\ last.id = "/tasks") =>
    /\ response.status = 200
    /\ \A t \in Values(state.tasks) :
         t \in response.tasks <=>
           /\ last.status = "" \/ t.status = last.status
           /\ last.tags = <<>> \/ t.tags \cap TagSet(last.tags) # {}
    /\ response.tasks \subseteq Values(state.tasks)

\* The query of the test: tags foo,bar and status todo on t1..t4 answers t1
\* and t3.
C19_Witness ==
  /\ last.op = "get" /\ last.id = "/tasks"
  /\ last.status = "todo" /\ last.tags = <<"foo", "bar">>
  /\ Cardinality(DOMAIN state.tasks.m) = 4
  /\ { t.id : t \in response.tasks } = {"t1", "t3"}

\* The last n entries of a list, none when n = 0.
Tail_n(arr, n) ==
  IF n >= Len(arr) THEN arr ELSE SubSeq(arr, Len(arr) - n + 1, Len(arr))

\* C20: the message query answers with the messages of the type asked for,
\* in history order; with a limit N >= 0, with the last min(N, m) of them;
\* without a limit, with all of them.
C20_LimitKeepsTail ==
  (last.op = "get" /\ last.id = "/messages") =>
    LET matching == IF last.type = "" THEN state.messageHistory
                    ELSE FilterType(state.messageHistory, last.type)
    IN /\ last.limit.nan => response.messages = matching
       /\ (~last.limit.nan /\ last.limit.n >= 0) =>
            response.messages = Tail_n(matching, last.limit.n)

\* C21: a query (full state, agents, tasks, messages, analytics) leaves the
\* ProjectState, the snapshot, the registry and the sockets as they were and
\* sends no frame.
C21_QueriesReadOnly ==
  [][ last'.op = "get" =>
        /\ state' = state
        /\ storage' = storage
        /\ websockets' = websockets /\ conn' = conn
        /\ log' = <<>>
    ]_vars

\* A limited message query that answers with fewer messages than the
\* history holds, with a socket registered and an agent stored.
C21_Witness ==
  /\ last.op = "get" /\ last.id = "/messages" /\ response.status = 200
  /\ Len(response.messages) < Len(state.messageHistory)
  /\ websockets # {}
  /\ state.updatedAt > 0
  /\ DOMAIN state.agents.m # {}

\* The notification the settings allow for a patch that sets the status:
\* its event, "" when there is none.
Notified(status, settings) ==
  IF status = "completed" /\ settings.onTaskComplete THEN "task_completed"
  ELSE IF status = "blocked" /\ settings.onBlocker THEN "task_blocked"
  ELSE ""

Puts(l) == { i \in 1..Len(l) : l[i].kind = "put" }
Sends(l, type) == { i \in 1..Len(l) : l[i].type = type }

\* C22: an updateTask that succeeds appends one system message (type
\* system, agent system) when its patch sets completed and the
\* task-complete toggle is on, or sets blocked and the blocker toggle is on,
\* a different message for each; otherwise it appends none.  The task
\* update is written, with the history still as it was, and broadcast as
\* task.updated before the notification is written and broadcast as
\* message.new.
C22_NotificationsGated ==
  [][ (last'.op = "updateTask" /\ "status" \in DOMAIN last' /\ Succeeded') =>
        LET event == Notified(last'.status, state.settings)
            l == log'
        IN /\ event = "" =>
                /\ History' = History
                /\ Sends(l, "message.new") = {}
                /\ Cardinality(Puts(l)) = 1
           /\ event # "" =>
                /\ Window(History, History')
                /\ History'[Len(History')].type = "system"
                /\ History'[Len(History')].agentId = "system"
                /\ History'[Len(History')].event = event
                /\ Cardinality(Puts(l)) = 2
                /\ l[1].kind = "put" /\ l[1].snap.messageHistory = History
                /\ l[1].snap.tasks = Serializable(state').tasks
                /\ \A w \in websockets :
                     /\ Cardinality(SentTo(l, w, "task.updated")) = 1
                     /\ conn[w] = "open" =>
                          Cardinality(SentTo(l, w, "message.new")) = 1
                /\ \A i \in Sends(l, "task.updated"), j \in Puts(l) \ {1} : i < j
                /\ \A j \in Puts(l) \ {1} :
                     /\ l[j].snap = Serializable(state')
                     /\ \A k \in Sends(l, "message.new") : j < k
    ]_vars

\* A task set blocked over a socket with the blocker toggle on and the
\* task-complete toggle off: put, task.updated, put, message.new.
C22_Witness ==
  /\ last.op = "updateTask" /\ "status" \in DOMAIN last /\ Succeeded
  /\ last.status = "blocked" /\ last.ws # NoSocket
  /\ ~state.settings.onTaskComplete /\ state.settings.onBlocker
  /\ Len(log) = 4
  /\ log[2].type = "task.updated" /\ log[4].type = "message.new"
  /\ History[Len(History)].event = "task_blocked"

\* C23: a removeAgent is answered with success and leaves no agent under
\* the id; when there was none, the state (updatedAt included), the
\* snapshot and the registry stay as they were and nothing is written or
\* sent, so a second removal changes nothing and sends no second
\* agent.left.
C23_RemoveAgentIdempotent ==
  [][ last'.op = "removeAgent" =>
        /\ response'.status = 200
        /\ last'.id \notin DOMAIN state'.agents.m
        /\ last'.id \notin DOMAIN state.agents.m =>
             /\ state' = state /\ storage' = storage
             /\ websockets' = websockets
             /\ log' = <<>>
        /\ last'.id \in DOMAIN state.agents.m =>
             \A w \in websockets : Cardinality(SentTo(log', w, "agent.left")) = 1
    ]_vars

\* What a command leaves: the state, the live-connection handles aside, the
\* snapshot and the broadcast frames with their receivers.
Outcome(c) ==
  [ st |-> WithoutSockets(c.st),
    store |-> c.store,
    events |-> { <<c.log[i].type, c.log[i].to, c.log[i].ok>> :
                   i \in BroadcastsIn(c.log) } ]

\* The frame can be handled in this state (an id to generate is left).
Handleable(f) ==
  /\ now < MaxClock
  /\ (f.type = "agent.register" /\ f.has /\ f.data.id = "") => CanAgentUuid(state)
  /\ (f.type = "task.create" /\ f.has /\ f.data.id = "") => CanTaskUuid(state)

\* C24: in every state, a frame of one of the six types over an open socket
\* and the request with the same payload leave the same state, snapshot and
\* broadcast frames.
C24_TransportEquivalence ==
  \A w \in websockets : \A f \in Frames \cup MissingFrames :
    (conn[w] = "open" /\ Handleable(f)) =>
      Outcome(HandleWebSocketMessage(Start, f, w)) = Outcome(HandleRequest(Start, f))

Recognized == {"name", "description", "status"}

\* C25: an update of a project with a patch that has none of name,
\* description, status issues no write and leaves every table as it was,
\* updated_at included; it returns the current record, or absent when the
\* id has no record.
C25_EmptyPatchWritesNothing ==
  [][ (last'.op = "updateProject" /\ last'.data.has \cap Recognized = {}) =>
        /\ db' = db
        /\ log' = <<>>
        /\ response'.projects = GetProject(db, last'.id)
        /\ response'.status = IF last'.id \in DOMAIN db.projects THEN 200 ELSE 404
    ]_vars

\* A patch with an unrecognized key only, on a project last written before
\* the clock moved on: the record is returned with its old updated_at.
C25_Witness ==
  /\ last.op = "updateProject" /\ last.id = "p1" /\ last.data.has = {"id"}
  /\ response.status = 200
  /\ "p1" \in DOMAIN db.projects
  /\ db.projects["p1"].updated_at < now
  /\ \E p \in response.projects : p.updatedAt = db.projects["p1"].updated_at * 1000

\* C26: an update that is carried out gives each of name, description and
\* status the value of the patch when the patch has the key, null
\* included, and leaves it as it was otherwise; id and created_at, every
\* other project and the agents and tasks stay as they were.  An update
\* that is not carried out changes nothing.
C26_OnlyPatchedFields ==
  [][ last'.op = "updateProject" =>
        IF response'.status = 200
        THEN LET old == db.projects[last'.id]
                 new == db'.projects[last'.id]
             IN /\ \A k \in Recognized :
                     new[k] = IF k \in last'.data.has THEN last'.data[k] ELSE old[k]
                /\ new.id = old.id /\ new.created_at = old.created_at
                /\ new.updated_at =
                     IF last'.data.has \cap Recognized = {} THEN old.updated_at
                     ELSE now
                /\ DOMAIN db'.projects = DOMAIN db.projects
                /\ \A q \in DOMAIN db.projects \ {last'.id} :
                     db'.projects[q] = db.projects[q]
                /\ db'.agents = db.agents /\ db'.tasks = db.tasks
        ELSE db' = db
    ]_vars

\* A patch {description: null} on a project created with a description:
\* NULL is stored, the name and the status are the ones of the creation.
C26_Witness ==
  /\ last.op = "updateProject" /\ last.id = "p1"
  /\ last.data.has = {"description"} /\ last.data.description = Null
  /\ response.status = 200
  /\ db.projects["p1"].description = Null
  /\ db.projects["p1"].name = "n1" /\ db.projects["p1"].status = "planning"

\* C27: an update whose status is none of the five is answered 400 and
\* writes nothing, and every stored project has one of the five statuses.
C27_InvalidStatusRejected ==
  [][ /\ ( /\ last'.op = "updateProject"
           /\ "status" \in last'.data.has
           /\ last'.data.status \notin ProjectStatuses )
         => (response'.status = 400 /\ db' = db /\ log' = <<>>)
      /\ \A p \in DOMAIN db'.projects :
           db'.projects[p].status \in ProjectStatuses
    ]_vars

\* Every agents and tasks row references a project that has a row.
Referenced(tables) ==
  /\ \A a \in DOMAIN tables.agents :
       tables.agents[a].project_id \in DOMAIN tables.projects
  /\ \A t \in DOMAIN tables.tasks :
       tables.tasks[t].project_id \in DOMAIN tables.projects

\* C28: a deleteProject leaves no row of the project and no agents or tasks
\* row that references it, and every other row as it was; and after every
\* step each agents and tasks row references an existing project.
C28_DeleteCascades ==
  [][ /\ last'.op = "deleteProject" =>
           /\ DOMAIN db'.projects = DOMAIN db.projects \ {last'.id}
           /\ \A q \in DOMAIN db'.projects : db'.projects[q] = db.projects[q]
           /\ \A table \in {"agents", "tasks"} :
                /\ DOMAIN db'[table] =
                     { x \in DOMAIN db[table] : db[table][x].project_id # last'.id }
                /\ \A x \in DOMAIN db'[table] : db'[table][x] = db[table][x]
      /\ Referenced(db')
    ]_vars

\* p1 was deleted while p2 has a task: p1 and its rows are gone, p2 and its
\* task are there.
C28_Witness ==
  /\ last.op = "deleteProject" /\ last.id = "p1"
  /\ DOMAIN db.projects = {"p2"}
  /\ DOMAIN db.tasks = {"t2"}
  /\ DOMAIN db.agents = {}
  /\ response.status = 204

(* ------------------ connections and the agents on them ---------------- *)

\* C29: no agent of the project state references a connection that has
\* closed or that a failed send removed from the registry.
C29_NoAgentOnClosedConnection ==
  \A a \in Values(state.agents) :
    a.websocket # NoSocket => conn[a.websocket] # "closed"

\* The broadcast frames of a command that were sent to socket w, in order.
BroadcastsTo(l, w) ==
  SelectSeq(l, LAMBDA e : e.kind = "send" /\ e.to = w /\ e.type \in BroadcastTypes)

Types(l) == [i \in 1..Len(l) |-> l[i].type]

\* C30: a socket enters the registry with its upgrade and at no other time;
\* it leaves with its close event or with the first broadcast frame that
\* cannot be sent to it, and for no other reason; a socket outside the
\* registry is sent no broadcast and is not added again; and a socket that
\* is open is sent every broadcast of every command, each successfully.
C30_RegistryLifecycle ==
  [][ /\ last'.op = "connect" =>
           \E w \in Sockets : /\ conn[w] = "unused" /\ conn'[w] = "open"
                              /\ websockets' = websockets \cup {w}
      /\ \A w \in Sockets :
           /\ w \in websockets' \ websockets =>
                last'.op = "connect" /\ conn[w] = "unused"
           /\ w \in websockets =>
                ( w \notin websockets' <=>
                    \/ last'.op = "close" /\ conn'[w] # conn[w]
                    \/ w \in FailedTo(log') )
           /\ w \notin websockets => BroadcastsTo(log', w) = <<>>
           /\ conn[w] = "closed" => conn'[w] = "closed" /\ w \notin websockets'
           /\ \A i \in 1..Len(BroadcastsTo(log', w)) :
                ~BroadcastsTo(log', w)[i].ok => i = Len(BroadcastsTo(log', w))
           /\ (w \in websockets /\ conn[w] = "open") =>
                /\ \A i \in 1..Len(BroadcastsTo(log', w)) : BroadcastsTo(log', w)[i].ok
                /\ \A v \in websockets :
                     IsPrefix(Types(BroadcastsTo(log', v)), Types(BroadcastsTo(log', w)))
    ]_vars

\* One socket has closed and the other, still open, is sent the broadcast
\* of a message while the closed one is sent nothing.
C30_Witness ==
  \E w, v \in Sockets :
    /\ last.op = "sendMessage"
    /\ conn[v] = "closed" /\ v \notin websockets
    /\ websockets = {w} /\ conn[w] = "open"
    /\ Len(BroadcastsTo(log, w)) = 1 /\ BroadcastsTo(log, w)[1].ok
    /\ BroadcastsTo(log, v) = <<>>

(* ------------------------- the average task time --------------------- *)

\* Tasks with their actualHours: {} when the field is not set, {n} when it
\* is n.
HourValues == {{}, {0}, {1}, {3}}
HourTasks(id) ==
  { [id |-> id, status |-> st, actualHours |-> h] :
      st \in {"completed", "todo"}, h \in HourValues }
HourTaskMaps ==
  { EmptyMap }
  \cup { "t1" :> a : a \in HourTasks("t1") }
  \cup { ("t1" :> a) @@ ("t2" :> b) : a \in HourTasks("t1"), b \in HourTasks("t2") }

\* The value of `t.actualHours` as a condition: undefined and 0 are falsy.
TruthyHours(t) == t.actualHours # {} /\ t.actualHours # {0}

\* t.actualHours || 0
HoursOrZero(t) == IF TruthyHours(t) THEN CHOOSE n \in t.actualHours : TRUE ELSE 0

\* reduce((sum, t) => sum + (t.actualHours || 0), 0)
RECURSIVE TotalHours(_)
TotalHours(tasks) ==
  IF tasks = {} THEN 0
  ELSE LET t == CHOOSE x \in tasks : TRUE
       IN HoursOrZero(t) + TotalHours(tasks \ {t})

\* A quotient total / length, kept as the pair; the number 0 is 0 / 1.
Quotient(num, den) == [num |-> num, den |-> den]

CalculateAverageTaskTime(st) ==
  LET completed ==
        { t \in Values(st.tasks) : t.status = "completed" /\ TruthyHours(t) }
  IN IF Cardinality(completed) = 0 THEN Quotient(0, 1)
     ELSE Quotient(TotalHours(completed), Cardinality(completed))

\* GET /analytics, of which productivity.averageTaskTime is kept.
GetAverageTaskTime ==
  /\ response' = [ agents |-> {}, status |-> 200, body |-> "analytics",
                   averageTaskTime |-> CalculateAverageTaskTime(state) ]
  /\ log' = <<>>
  /\ last' = Http("get", "/analytics")
  /\ UNCHANGED <<state, storage, websockets, conn, now, objects, db>>

\* A project with up to two tasks.
AnalyticsInit ==
  /\ state \in { [DefaultState EXCEPT !.tasks = MapOf(tm)] : tm \in HourTaskMaps }
  /\ storage = Serializable(state)
  /\ websockets = {}
  /\ conn = [w \in Sockets |-> "unused"]
  /\ now = 0
  /\ log = <<>>
  /\ response = NoResponse
  /\ last = Event("construct")
  /\ objects = <<>>
  /\ db = EmptyDb

AnalyticsNext == GetAverageTaskTime

AnalyticsSpec == AnalyticsInit /\ [][AnalyticsNext]_vars

(* --------------------- a command, step by step ----------------------- *)

\* Number of commands an instance accepts.
MaxCommands == 2

\* One instance while it handles sendMessage commands: where the command is
\* (idle: none in progress; put: the state is changed and the handler awaits
\* storage.put; loop: inside the for-of of broadcastToAll), whether the
\* object's store answers its calls (ok) or never does (hung), the registry,
\* the sockets whose send() throws, the sockets the loop has still to visit,
\* the sends of the command so far, and the commands accepted and returned.
Running(store) ==
  [ websockets |-> Sockets, store |-> store, sent |-> <<>>, pc |-> "idle",
    failing |-> {}, pending |-> {}, accepted |-> 0, returned |-> 0 ]

StepCommit(o, inst, op, resp) ==
  /\ objects' = [objects EXCEPT ![o] = inst]
  /\ log' = <<>>
  /\ response' = resp
  /\ last' = Last(op, NoSocket, o[2])
  /\ UNCHANGED <<state, storage, websockets, conn, now, db>>

\* fetch() runs the command up to `await this.persistState()`.
Accept(name) ==
  LET o == IdFromName(name)
      inst == objects[o]
  IN /\ inst.pc = "idle"
     /\ inst.accepted < MaxCommands
     /\ StepCommit(o, [inst EXCEPT !.pc = "put", !.accepted = @ + 1,
                                   !.sent = <<>>],
                   "accept", NoResponse)

\* storage.put resolves: the handler goes on to broadcastToAll and starts
\* to iterate the registry.
PutReturns(name) ==
  LET o == IdFromName(name)
      inst == objects[o]
  IN /\ inst.pc = "put"
     /\ inst.store = "ok"
     /\ StepCommit(o, [inst EXCEPT !.pc = "loop", !.pending = inst.websockets],
                   "put", NoResponse)

\* Mutant: a socket whose send throws stays in the registry and is tried
\* again.
LoopStepRetrying(name) ==
  LET o == IdFromName(name)
      inst == objects[o]
  IN /\ inst.pc = "loop"
     /\ \E w \in inst.pending :
          StepCommit(o,
            IF w \in inst.failing THEN inst
            ELSE [inst EXCEPT !.sent = Append(@, <<w, TRUE>>),
                              !.pending = @ \ {w}],
            "send", NoResponse)

\* One turn of the loop: ws.send(str) on the next socket of the registry,
\* which is deleted from the registry when the send throws.
LoopStep(name) ==
  LET o == IdFromName(name)
      inst == objects[o]
  IN /\ inst.pc = "loop"
     /\ \E w \in inst.pending :
          StepCommit(o,
            [inst EXCEPT !.sent = Append(@, <<w, w \notin inst.failing>>),
                         !.pending = @ \ {w},
                         !.websockets = IF w \in inst.failing THEN @ \ {w} ELSE @,
                         !.failing = @ \ {w}],
            "send", NoResponse)

\* The loop has visited the registry: the command returns its result.
Return(name) ==
  LET o == IdFromName(name)
      inst == objects[o]
  IN /\ inst.pc = "loop"
     /\ inst.pending = {}
     /\ StepCommit(o, [inst EXCEPT !.pc = "idle", !.returned = @ + 1],
                   "return", Success)

\* The peer of a socket goes away between two turns of the instance.
PeerGone(name, w) ==
  LET o == IdFromName(name)
      inst == objects[o]
  IN /\ inst.pc \in {"idle", "put"}
     /\ w \in inst.websockets \ inst.failing
     /\ StepCommit(o, [inst EXCEPT !.failing = @ \cup {w}], "break", NoResponse)

ProgressInit ==
  /\ state = DefaultState
  /\ storage = NoSnapshot
  /\ websockets = {}
  /\ conn = [w \in Sockets |-> "unused"]
  /\ now = 0
  /\ log = <<>>
  /\ response = NoResponse
  /\ last = Event("construct")
  /\ objects \in [ObjectIds -> { Running(st) : st \in {"ok", "hung"} }]
  /\ db = EmptyDb

ProgressNext ==
  \/ \E n \in ProjectNames : Accept(n)
  \/ \E n \in ProjectNames : PutReturns(n)
  \/ \E n \in ProjectNames : LoopStep(n)
  \/ \E n \in ProjectNames : Return(n)
  \/ \E n \in ProjectNames, w \in Sockets : PeerGone(n, w)

\* A handler that can go on goes on: the continuation of a resolved await
\* and the next turn of a synchronous loop are run by the runtime.
ProgressSpec ==
  /\ ProgressInit
  /\ [][ProgressNext]_vars
  /\ \A n \in ProjectNames :
       /\ WF_vars(PutReturns(n))
       /\ WF_vars(LoopStep(n))
       /\ WF_vars(Return(n))

(* ------------- the coordinator and the Directory side by side --------- *)

\* The identifier that names both the coordinator modelled by `state` (the
\* route /api/projects/:id/:subpath) and a record of the Directory (the
\* route /api/projects/:id).
SharedId == "p1"

SideBySideNext ==
  \/ \E data \in ProjectDatas : PostProject(data)
  \/ \E data \in { x \in ProjectPatches : x.has \in {{"name"}, {"status"}} } :
       PutProject(SharedId, data)
  \/ DeleteProjectReq(SharedId)
  \/ \E d \in { x \in AgentDatas : x.id = "a1" } : PostAgents(d)
  \/ \E d \in { x \in TaskDatas : x.id # "" } : PostTasks(d)
  \/ \E d \in { x \in MessageDatas : ~x.hasId } : PostMessages(d)
  \/ \E u \in ContextUpdates : PutContext(u)
  \/ \E t \in TaskIds : DeleteTaskReq(t)
  \/ Get("/state")
  \/ Connect

SideBySideSpec == Init /\ [][SideBySideNext]_vars

(* ------------------------- the mutation commands ---------------------- *)

\* The commands of one coordinator on both transports, over connections
\* that stay open.
CommandNext ==
  \/ \E d \in { x \in InitDatas : x.has \in {{"settings"}, {"agents"}} } :
       PostInitialize(d)
  \/ \E d \in { x \in AgentDatas : x.id = "a1" } : PostAgents(d)
  \/ \E d \in TaskDatas : PostTasks(d)
  \/ \E d \in { x \in MessageDatas : ~x.hasId } : PostMessages(d)
  \/ \E a \in UpdatedAgentIds, u \in AgentUpdates : PutAgent(a, u)
  \/ \E t \in TaskIds, u \in TaskUpdates : PutTask(t, u)
  \/ \E u \in ContextUpdates : PutContext(u)
  \/ \E a \in UpdatedAgentIds : DeleteAgent(a)
  \/ \E t \in TaskIds : DeleteTaskReq(t)
  \/ \E w \in Sockets,
        f \in { x \in Frames : x.type \in {"agent.register", "agent.update", "task.update"} } :
       WsMessage(w, f)
  \/ Connect

CommandSpec == Init /\ [][CommandNext]_vars

\* C31: an updateAgent or updateTask that names an id which is not in the
\* project leaves the ProjectState, updatedAt included, the snapshot and the
\* registry as they were, writes nothing and broadcasts nothing, whether it
\* came as a request or as a frame.
C31_FailedUpdateNoEffect ==
  [][ ( \/ last'.op = "updateAgent" /\ Unknown(state.agents, last'.id)
        \/ last'.op = "updateTask" /\ Unknown(state.tasks, last'.id) )
      => /\ state' = state
         /\ storage' = storage
         /\ websockets' = websockets
         /\ \A i \in 1..Len(log') :
              log'[i].kind # "put" /\ log'[i].type \notin BroadcastTypes
    ]_vars

\* An agent.update frame for an agent that is not there was answered, in a
\* project that has a snapshot and another socket listening.
C31_Witness ==
  /\ last.op = "updateAgent" /\ last.ws # NoSocket
  /\ Unknown(state.agents, last.id)
  /\ storage.present /\ storage.updatedAt = state.updatedAt
  /\ state.updatedAt < now
  /\ Cardinality(websockets) = 2
  /\ Len(log) = 1 /\ log[1].type = "error" /\ log[1].msg = "Agent not found"

\* The command handled last ended with an exception that is no NotFound and
\* no missing field: a request is answered 500, a frame with the
\* internal-error text.  In this model such an exception comes from the
\* collections persistState iterates.
InternalFailure ==
  /\ last.op \in Mutators
  /\ IF last.ws = NoSocket THEN response.status = 500
     ELSE \E i \in 1..Len(log) : log[i].type = "error" /\ log[i].msg = InternalMsg

\* C32: a mutating command whose snapshot write fails sends no broadcast and
\* leaves the in-memory state as it was before the command, so that it still
\* equals the last snapshot written.
C32_FailedWriteInvisible ==
  [][ InternalFailure' =>
        /\ \A i \in 1..Len(log') : log'[i].type \notin BroadcastTypes
        /\ storage' = storage
        /\ state' = state
    ]_vars

\* C33: a deleteTask succeeds whether or not the task was there: it is
\* answered with success, updatedAt is the time of the command, a snapshot
\* is written and task.deleted is broadcast; afterwards no task is stored
\* under the id or carries it, and every other task is as it was.
C33_DeleteTaskUnconditional ==
  [][ last'.op = "deleteTask" =>
        /\ response'.status = 200
        /\ state'.updatedAt = now'
        /\ \E i \in 1..Len(log') : log'[i].kind = "put"
        /\ \A w \in websockets : \E i \in 1..Len(log') :
             log'[i].to = w /\ log'[i].type = "task.deleted"
        /\ Unknown(state'.tasks, last'.id)
        /\ \A k \in DOMAIN state.tasks.m \ {last'.id} :
             k \in DOMAIN state'.tasks.m /\ state'.tasks.m[k] = state.tasks.m[k]
    ]_vars

\* The fields of the state that the body d of an initialize does not have
\* are the same in s and t.
KeepsUnsupplied(s, t, d) ==
  /\ "agents" \notin d.has => t.agents = s.agents
  /\ "tasks" \notin d.has => t.tasks = s.tasks
  /\ "messageHistory" \notin d.has => t.messageHistory = s.messageHistory
  /\ "settings" \notin d.has => t.settings = s.settings
  /\ t.context = s.context

\* C34: an initialize keeps the fields its body does not supply and takes
\* the others from the body, gives the project a non-empty id, a new one
\* when the body has none, sets createdAt and updatedAt to the time of the
\* command, and leaves agents and tasks as mappings.
C34_InitializeMerges ==
  [][ last'.op = "initialize" =>
        /\ \E d \in InitDatas :
             /\ KeepsUnsupplied(state, state', d)
             /\ "id" \in d.has => state'.id = d.id
             /\ "id" \notin d.has => state'.id \notin {"", state.id}
             /\ "messageHistory" \in d.has => state'.messageHistory = d.messageHistory
             /\ "settings" \in d.has => state'.settings = d.settings
        /\ state'.createdAt = now' /\ state'.updatedAt = now'
        /\ state'.agents.kind = "Map" /\ state'.tasks.kind = "Map"
    ]_vars

\* C35: after every successful mutating command (a removeAgent of an agent
\* that is not there aside) updatedAt is the time of the command; updatedAt
\* never decreases and is never less than createdAt.
C35_UpdatedAtIsCommandTime ==
  [][ /\ ( /\ last'.op \in Mutators
           /\ Succeeded'
           /\ ~(last'.op = "removeAgent" /\ last'.id \notin DOMAIN state.agents.m) )
         => state'.updatedAt = now'
      /\ state'.updatedAt >= state.updatedAt
      /\ state'.updatedAt >= state'.createdAt
    ]_vars

\* C36: every agent stored under key k has id k and every task stored
\* under key k has id k.
C36_KeyEqualsId ==
  /\ \A k \in DOMAIN state.agents.m : state.agents.m[k].id = k
  /\ \A k \in DOMAIN state.tasks.m : state.tasks.m[k].id = k

\* C37: registerAgent, updateAgent, removeAgent, createTask, deleteTask and
\* updateContext leave the message history as it was, whatever the
\* notification settings and the status of the task created.
C37_HistoryOnlyByMessages ==
  [][ last'.op \in { "registerAgent", "updateAgent", "removeAgent",
                     "createTask", "deleteTask", "updateContext" }
        => state'.messageHistory = state.messageHistory
    ]_vars

\* A task was created as completed while completions are announced: the
\* history still holds the one message sent before, and nothing else.
C37_Witness ==
  /\ last.op = "createTask" /\ Succeeded
  /\ \E k \in DOMAIN state.tasks.m : state.tasks.m[k].status = "completed"
  /\ state.settings.onTaskComplete /\ state.settings.onAgentJoin
  /\ Len(state.messageHistory) = 1
  /\ state.messageHistory[1].type # "system"

DirectoryOps == {"createProject", "updateProject", "deleteProject"}

\* C38: creating, updating or deleting a record of the Directory changes no
\* state, snapshot or connection of the coordinator of the same identifier;
\* a coordinator request changes nothing in the Directory; and registerAgent,
\* createTask, deleteTask, sendMessage and updateContext succeed and are
\* persisted whether or not the Directory has a record of the identifier.
C38_SideBySide ==
  [][ /\ last'.op \in DirectoryOps =>
           /\ state' = state /\ storage' = storage
           /\ websockets' = websockets /\ conn' = conn
      /\ last'.op \notin DirectoryOps => db' = db
      /\ last'.op \in { "registerAgent", "createTask", "deleteTask",
                         "sendMessage", "updateContext" } =>
           /\ response'.status = 200
           /\ storage'.present /\ Reconstruct(storage') = state'
    ]_vars

\* The record of the shared identifier has been deleted while its
\* coordinator holds an agent, a snapshot and an open connection.
C38_Witness ==
  /\ last.op = "deleteProject" /\ last.id = SharedId
  /\ response.status = 204
  /\ SharedId \notin DOMAIN db.projects
  /\ "a1" \in DOMAIN state.agents.m
  /\ storage.present /\ Reconstruct(storage) = state
  /\ websockets # {}

\* The completed tasks whose actualHours is set, 0 included.
WithHours == { t \in Values(state.tasks) : t.status = "completed" /\ t.actualHours # {} }

RECURSIVE SumOfHours(_)
SumOfHours(tasks) ==
  IF tasks = {} THEN 0
  ELSE LET t == CHOOSE x \in tasks : TRUE
       IN (CHOOSE n \in t.actualHours : TRUE) + SumOfHours(tasks \ {t})

\* C39: the average task time of the analytics is the sum of actualHours
\* over the completed tasks that have the field set divided by their
\* number, a task with actualHours 0 counted among them, and 0 when there
\* is no such task.
C39_AverageTaskTime ==
  (last.op = "get" /\ last.id = "/analytics") =>
    LET avg == response.averageTaskTime
    IN IF WithHours = {} THEN avg.num = 0
       ELSE avg.num * Cardinality(WithHours) = SumOfHours(WithHours) * avg.den

\* C40: in every instance whose store answers its calls, a command that
\* was accepted eventually returns its result, whatever sockets fail and
\* whether or not the store of another instance answers; and the broadcast
\* of a command visits no socket twice.
C40_CommandsComplete ==
  /\ \A n \in ProjectNames :
       (objects[IdFromName(n)].pc # "idle" /\ objects[IdFromName(n)].store = "ok")
         ~> ( /\ objects[IdFromName(n)].pc = "idle"
              /\ objects[IdFromName(n)].returned = objects[IdFromName(n)].accepted )
  /\ [](\A n \in ProjectNames :
          \A i, j \in 1..Len(objects[IdFromName(n)].sent) :
            objects[IdFromName(n)].sent[i][1] = objects[IdFromName(n)].sent[j][1]
              => i = j)

\* A command of B has returned although one of its sends failed, while a
\* command of A waits for a store that does not answer.
C40_Witness ==
  LET a == objects[IdFromName("A")]
      b == objects[IdFromName("B")]
  IN /\ a.store = "hung" /\ a.pc = "put"
     /\ b.store = "ok" /\ b.pc = "idle" /\ b.returned = 1
     /\ \E i \in 1..Len(b.sent) : ~b.sent[i][2]
     /\ Len(b.sent) = 2
     /\ last.op = "return"

====
